---------------------------- MODULE Spec2Model ----------------------------
(***************************************************************************)
(* Recurrence and planning engine of momentum-app.                         *)
(*                                                                         *)
(* Representation.                                                         *)
(*  - A JavaScript Date is the index of a calendar day, day 0 being        *)
(*    2024-01-01 (a Monday).  Every Date the engine receives is built from *)
(*    a calendar-date string, and the host zone is taken to be UTC, so the *)
(*    local calendar fields (getDay, getDate, getFullYear) and the UTC     *)
(*    date string (toISOString) describe the same day.                     *)
(*  - A "YYYY-MM-DD" string is the triple <<year, month, day>>.            *)
(*  - An "HH:MM" string is the pair <<hours, minutes>>.                    *)
(*  - An optional value is a sequence of length 0 (absent) or, for         *)
(*    numbers, of length 1; an absent time is <<>>.                        *)
(***************************************************************************)
EXTENDS Integers, Sequences, FiniteSets, TLC

VARIABLES
  gi_pc,          \* generateInstances: "idle" | "done"
  gi_template,    \* its template argument
  gi_start,       \* its startDate argument (day index)
  gi_end,         \* its endDate argument (day index)
  gi_exceptions,  \* its exceptions argument (sequence)
  gi_result,      \* the instances it returned (sequence)
  pv_pc,          \* generatePreview: "idle" | "loop" | "done"
  pv_pattern,     \* its pattern argument
  pv_start,       \* its startDate argument
  pv_count,       \* its count argument
  pv_current,     \* local `current`
  pv_generated,   \* local `generated`
  pv_dates,       \* local `dates`
  wl_pc,          \* calculateWorkloadAnalysis: "idle" | "done"
  wl_tasks,       \* its tasks argument
  wl_start,       \* its startDate argument
  wl_end,         \* its endDate argument
  wl_result,      \* what the call produced (an analysis or a raised error)
  vc_pc,          \* validatePlanningConflicts: "idle" | "done"
  vc_planned,     \* its plannedTasks argument
  vc_existing,    \* its existingTasks argument
  vc_result       \* the conflicts it returned (sequence)

VARIABLES
  bk_pc,            \* generateBulkTaskPlan: "idle" | "done"
  bk_bulkCreation,  \* its bulkCreation argument
  bk_result         \* what the call produced (the planned tasks or a raised error)

VARIABLES
  db_templates,   \* AsyncStorage 'recurringTemplates'
  db_tasks,       \* AsyncStorage 'tasks'
  db_exceptions,  \* AsyncStorage 'recurrenceExceptions'
  db_today,       \* the day new Date() falls on
  db_created,     \* how many tasks and templates createTask has made
  db_last         \* the last DatabaseService call, its arguments and the store before it

VARIABLES ts_pc, ts_existingTasks, ts_newTask, ts_workingHours, ts_result

VARIABLES dd_pc, dd_tasks, dd_draft, dd_result, dd_result30

VARIABLES pl_tasks, pl_templates, pl_planningPreview, pl_bulkCreation, pl_previewTasks, pl_instantiated, pl_flows, pl_last

VARIABLES ss_pc, ss_task, ss_existingTasks, ss_dateRange, ss_userPreferences, ss_result

VARIABLES tp_stored, tp_created, tp_last

VARIABLES pe_pc, pe_template, pe_start, pe_end, pe_result, pe_plainResult

gi_vars == <<gi_pc, gi_template, gi_start, gi_end, gi_exceptions, gi_result>>
pv_vars == <<pv_pc, pv_pattern, pv_start, pv_count, pv_current, pv_generated, pv_dates>>
wl_vars == <<wl_pc, wl_tasks, wl_start, wl_end, wl_result>>
vc_vars == <<vc_pc, vc_planned, vc_existing, vc_result>>
bk_vars == <<bk_pc, bk_bulkCreation, bk_result>>
db_vars == <<db_templates, db_tasks, db_exceptions, db_today, db_created, db_last>>
ts_vars == <<ts_pc, ts_existingTasks, ts_newTask, ts_workingHours, ts_result>>
dd_vars == <<dd_pc, dd_tasks, dd_draft, dd_result, dd_result30>>
pl_vars == <<pl_tasks, pl_templates, pl_planningPreview, pl_bulkCreation, pl_previewTasks, pl_instantiated, pl_flows, pl_last>>
ss_vars == <<ss_pc, ss_task, ss_existingTasks, ss_dateRange, ss_userPreferences, ss_result>>
tp_vars == <<tp_stored, tp_created, tp_last>>
pe_vars == <<pe_pc, pe_template, pe_start, pe_end, pe_result, pe_plainResult>>
vars == <<gi_vars, pv_vars, wl_vars, vc_vars, bk_vars, db_vars, ts_vars, dd_vars, pl_vars, ss_vars, tp_vars, pe_vars>>

-----------------------------------------------------------------------------
(* Bounds of the model. *)

MaxInterval == 2
MaxSpan == 8
MaxExceptions == 2
MaxCount == 2
MaxTasks == 3
MaxLoad == 7
MaxRangeDays == 16
MaxBulkTasks == 11
MaxBulkDays == 55
MaxCreated == 2
MaxStoredExceptions == 1
MaxCompleted == 1
MaxAdvances == 1
MaxDayTasks == 3
MaxFlows == 2
MaxExternal == 1
MaxApplications == 1
MaxSuggestSpan == 8
MaxTemplatesCreated == 1
MaxUsage == 2

-----------------------------------------------------------------------------
(* Sequence helpers (Array.prototype methods). *)

Range(s) == {s[i] : i \in DOMAIN s}

RECURSIVE SumSeq(_)
SumSeq(s) == IF s = <<>> THEN 0 ELSE Head(s) + SumSeq(Tail(s))

RECURSIVE Reverse(_)
Reverse(s) == IF s = <<>> THEN <<>> ELSE Append(Reverse(Tail(s)), Head(s))

Min2(a, b) == IF a <= b THEN a ELSE b

-----------------------------------------------------------------------------
(* The calendar behind Date. *)

IsLeapYear(y) == (y % 4 = 0 /\ y % 100 # 0) \/ y % 400 = 0

DaysInYear(y) == IF IsLeapYear(y) THEN 366 ELSE 365

DaysInMonth(y, m) ==
  IF m = 2 THEN (IF IsLeapYear(y) THEN 29 ELSE 28)
  ELSE IF m \in {4, 6, 9, 11} THEN 30 ELSE 31

RECURSIVE YearFrom(_, _)
YearFrom(y, n) == IF n < DaysInYear(y) THEN y ELSE YearFrom(y + 1, n - DaysInYear(y))

RECURSIVE YearStart(_)
YearStart(y) == IF y <= 2024 THEN 0 ELSE YearStart(y - 1) + DaysInYear(y - 1)

RECURSIVE MonthFrom(_, _, _)
MonthFrom(y, m, r) ==
  IF r < DaysInMonth(y, m) THEN <<m, r + 1>>
  ELSE MonthFrom(y, m + 1, r - DaysInMonth(y, m))

\* the calendar date <<year, month, day>> of day index n
CivilFromDay(n) ==
  LET y == YearFrom(2024, n)
      md == MonthFrom(y, 1, n - YearStart(y))
  IN <<y, md[1], md[2]>>

\* the days the model computes with (2024-01-01 .. 2027-12-31), tabulated
CalendarDays == 0..1460

Civil == [n \in CalendarDays |-> CivilFromDay(n)]

\* date.getFullYear()
getFullYear(date) == Civil[date][1]

\* date.getMonth() + 1
getMonth1(date) == Civil[date][2]

\* date.getDate(): the day of the month, 1..31
getDate(date) == Civil[date][3]

\* date.getDay(): 0 = Sunday .. 6 = Saturday
getDay(date) == (date + 1) % 7

\* date.toISOString().split('T')[0]
formatDateString(date) == Civil[date]

-----------------------------------------------------------------------------
(* RecurringTaskService *)

\* mutant: day-of-year counted from 1 January, i.e. 0-based
getDayOfYear_ZeroBased(date) == date - YearStart(getFullYear(date))

\* getDayOfYear: whole days since `new Date(year, 0, 0)`, the last day of the
\* previous year
getDayOfYear(date) == date - (YearStart(getFullYear(date)) - 1)

shouldGenerateDaily(date, pattern) ==
  IF pattern.interval = 0 THEN FALSE   \* x % 0 is NaN, and NaN === 0 is false
  ELSE getDayOfYear(date) % pattern.interval = 0

\* mutant: the interval is applied, every interval-th week fires
shouldGenerateWeekly_EveryNthWeek(date, pattern) ==
  IF ~pattern.hasWeeklyOptions \/ Len(pattern.daysOfWeek) = 0 THEN FALSE
  ELSE /\ getDay(date) \in Range(pattern.daysOfWeek)
       /\ (date \div 7) % pattern.interval = 0

shouldGenerateWeekly(date, pattern) ==
  IF ~pattern.hasWeeklyOptions \/ Len(pattern.daysOfWeek) = 0 THEN FALSE
  ELSE getDay(date) \in Range(pattern.daysOfWeek)

shouldGenerateMonthly(date, pattern) == getDate(date) = 1

shouldGenerateForDate(date, pattern) ==
  CASE pattern.type = "daily" -> shouldGenerateDaily(date, pattern)
    [] pattern.type = "weekly" -> shouldGenerateWeekly(date, pattern)
    [] pattern.type = "monthly" -> shouldGenerateMonthly(date, pattern)
    [] OTHER -> FALSE

incrementDate(date, pattern) ==
  CASE pattern.type = "daily" -> date + 1
    [] pattern.type = "weekly" -> date + 1
    [] pattern.type = "monthly" -> date + 1
    [] OTHER -> date

createInstance(template, date) ==
  [ templateId |-> template.id,
    instanceDate |-> date,
    title |-> template.title,
    category |-> template.category,
    status |-> "pending",
    scheduledDate |-> date,
    scheduledTime |-> template.scheduledTime,
    duration |-> template.duration,
    isRecurring |-> TRUE,
    isModified |-> FALSE ]

\* Object.assign(target, source)
ObjectAssign(target, source) ==
  [f \in DOMAIN target \cup DOMAIN source |->
     IF f \in DOMAIN source THEN source[f] ELSE target[f]]

\* mutant: the exceptions of every template are applied
templateExceptionsOf_Unfiltered(template, exceptions) == exceptions

\* exceptions.filter(ex => ex.templateId === template.id)
templateExceptionsOf(template, exceptions) ==
  SelectSeq(exceptions, LAMBDA ex : ex.templateId = template.id)

\* new Set(templateExceptions.filter(ex => ex.type === 'skip').map(ex => ex.date))
skipDatesOf(templateExceptions) ==
  {templateExceptions[i].date :
     i \in {j \in DOMAIN templateExceptions : templateExceptions[j].type = "skip"}}

\* mutant: the last matching modify exception is taken
findModifyException_Last(templateExceptions, dateStr) ==
  LET hits == SelectSeq(templateExceptions,
                        LAMBDA ex : ex.type = "modify" /\ ex.date = dateStr)
  IN IF hits = <<>> THEN <<>> ELSE <<hits[Len(hits)]>>

\* templateExceptions.find(ex => ex.type === 'modify' && ex.date === dateStr):
\* the first match as a one-element sequence, <<>> when there is none
findModifyException(templateExceptions, dateStr) ==
  LET hits == SelectSeq(templateExceptions,
                        LAMBDA ex : ex.type = "modify" /\ ex.date = dateStr)
  IN IF hits = <<>> THEN <<>> ELSE <<Head(hits)>>

\* one date of the loop: the instance pushed for `current`, as a sequence of
\* length 0 or 1
instanceFor(template, current, templateExceptions) ==
  LET dateStr == formatDateString(current)
      modifyException == findModifyException(templateExceptions, dateStr)
      instance == createInstance(template, dateStr)
  IN IF dateStr \in skipDatesOf(templateExceptions) THEN <<>>
     ELSE IF ~shouldGenerateForDate(current, template.recurrencePattern) THEN <<>>
     ELSE IF modifyException # <<>> /\ modifyException[1].hasModifiedTask
          THEN <<[ObjectAssign(instance, modifyException[1].modifiedTask)
                    EXCEPT !.isModified = TRUE]>>
          ELSE <<instance>>

RECURSIVE generateLoop(_, _, _, _, _)
generateLoop(template, current, end, templateExceptions, instances) ==
  IF ~(current <= end) THEN instances
  ELSE generateLoop(template,
                    incrementDate(current, template.recurrencePattern),
                    end, templateExceptions,
                    instances \o instanceFor(template, current, templateExceptions))

\* hasRecurrenceEnded(pattern, currentDate): currentDate > new Date(endDate)
\* when the pattern has an endDate; endAfterOccurrences is not looked at
hasRecurrenceEnded(pattern, currentDate) ==
  IF "endDate" \in DOMAIN pattern /\ pattern.endDate # <<>>
  THEN currentDate > (CHOOSE date \in CalendarDays : Civil[date] = pattern.endDate[1])
  ELSE FALSE

\* a generation that leaves out the dates on which hasRecurrenceEnded holds
generateInstances_UntilPatternEnd(template, startDate, endDate, exceptions) ==
  SelectSeq(generateLoop(template, startDate, endDate,
                         templateExceptionsOf(template, exceptions), <<>>),
            LAMBDA instance :
              ~hasRecurrenceEnded(template.recurrencePattern,
                                  CHOOSE date \in CalendarDays :
                                    Civil[date] = instance.instanceDate))

\* generateInstances(template, startDate, endDate, exceptions)
generateInstances(template, startDate, endDate, exceptions) ==
  generateLoop(template, startDate, endDate,
               templateExceptionsOf(template, exceptions), <<>>)


\* mutant: the scan is abandoned only after two years without a match
previewGivesUp_TwoYears(dates, current, startDate) ==
  Len(dates) = 0 /\ current > startDate + 730

\* generatePreview's "Prevent infinite loop" test:
\* dates.length === 0 && current.getTime() > startDate.getTime() + 365 days
previewGivesUp(dates, current, startDate) ==
  Len(dates) = 0 /\ current > startDate + 365

-----------------------------------------------------------------------------
(* Workload analyzer (planning utilities). *)

Task(title, category, scheduledDate, scheduledTime, duration) ==
  [ title |-> title, category |-> category, scheduledDate |-> scheduledDate,
    scheduledTime |-> scheduledTime, duration |-> duration ]

\* an absent duration counted as no time at all
durationOr30_Zero(task) ==
  IF task.duration = <<>> THEN 0 ELSE task.duration[1]

\* task.duration || 30
durationOr30(task) ==
  IF task.duration = <<>> \/ task.duration[1] = 0 THEN 30 ELSE task.duration[1]

\* tasks.reduce((sum, task) => sum + (task.duration || 30), 0)
totalMinutesOf(tasks) == SumSeq([i \in DOMAIN tasks |-> durationOr30(tasks[i])])

getDatesInRange(startDate, endDate) ==
  [i \in 1..(endDate - startDate + 1) |-> startDate + i - 1]

\* mutant: no filter on the date
getTasksForDate_Unfiltered(tasks, date) == tasks

getTasksForDate(tasks, date) ==
  SelectSeq(tasks, LAMBDA task : task.scheduledDate = formatDateString(date))

\* dateRange.map(date => ({date, taskCount, totalMinutes}))
dailyWorkloadOf(tasks, dateRange) ==
  [i \in DOMAIN dateRange |->
     LET dayTasks == getTasksForDate(tasks, dateRange[i])
     IN [ date |-> formatDateString(dateRange[i]),
          taskCount |-> Len(dayTasks),
          totalMinutes |-> totalMinutesOf(dayTasks) ]]

\* the place of x in a list kept in descending taskCount order, behind its equals
RECURSIVE InsertByTasksDesc(_, _)
InsertByTasksDesc(x, sorted) ==
  IF sorted = <<>> THEN <<x>>
  ELSE IF Head(sorted).taskCount >= x.taskCount
       THEN <<Head(sorted)>> \o InsertByTasksDesc(x, Tail(sorted))
       ELSE <<x>> \o sorted

RECURSIVE SortDescFrom(_, _)
SortDescFrom(rest, sorted) ==
  IF rest = <<>> THEN sorted
  ELSE SortDescFrom(Tail(rest), InsertByTasksDesc(Head(rest), sorted))

\* [...dailyWorkload].sort((a, b) => b.taskCount - a.taskCount), a stable sort
sortedByTasksOf(dailyWorkload) == SortDescFrom(dailyWorkload, <<>>)

\* Math.min(3, Math.ceil(totalDays * 0.2)); the double product n * 0.2 is
\* exact at the multiples of 5 up to 15, so the ceiling is that of n / 5
peakCount(totalDays) == Min2(3, (totalDays + 4) \div 5)

\* sortedByTasks.slice(0, k)
peakDaysOf(sortedByTasks, k) == SubSeq(sortedByTasks, 1, Min2(k, Len(sortedByTasks)))

\* mutant: the tail is not reversed
lightDaysOf_NotReversed(sortedByTasks, k) ==
  IF k = 0 THEN sortedByTasks
  ELSE SubSeq(sortedByTasks, Len(sortedByTasks) - Min2(k, Len(sortedByTasks)) + 1,
              Len(sortedByTasks))

\* sortedByTasks.slice(-k).reverse(); slice(-0) is slice(0), the whole array
lightDaysOf(sortedByTasks, k) ==
  IF k = 0 THEN Reverse(sortedByTasks)
  ELSE Reverse(SubSeq(sortedByTasks,
                      Len(sortedByTasks) - Min2(k, Len(sortedByTasks)) + 1,
                      Len(sortedByTasks)))

\* the keys of categoryStats, in insertion order
RECURSIVE categoriesOf(_, _)
categoriesOf(tasks, seen) ==
  IF tasks = <<>> THEN seen
  ELSE categoriesOf(Tail(tasks),
                    IF Head(tasks).category \in Range(seen) THEN seen
                    ELSE Append(seen, Head(tasks).category))

\* Array.from(categoryStats.entries()).map(...); percentage is the fraction
\* 100 * count / totalTasks, kept as numerator and denominator
categoryDistributionOf(tasks) ==
  LET cats == categoriesOf(tasks, <<>>)
  IN [i \in DOMAIN cats |->
        LET mine == SelectSeq(tasks, LAMBDA task : task.category = cats[i])
        IN [ category |-> cats[i],
             taskCount |-> Len(mine),
             totalMinutes |-> totalMinutesOf(mine),
             percentageNum |-> 100 * Len(mine),
             percentageDen |-> Len(tasks) ]]

\* mutant: `||` in place of `&&`
workloadLevelOf_Either(totalTasks, totalMinutes, totalDays) ==
  IF totalDays = 0 THEN "overloaded"
  ELSE IF totalTasks <= 2 * totalDays \/ totalMinutes <= 120 * totalDays THEN "light"
  ELSE IF totalTasks <= 4 * totalDays \/ totalMinutes <= 240 * totalDays THEN "moderate"
  ELSE IF totalTasks <= 6 * totalDays \/ totalMinutes <= 360 * totalDays THEN "heavy"
  ELSE "overloaded"

\* the if/else chain on averageTasksPerDay = totalTasks / totalDays and
\* averageMinutesPerDay = totalMinutes / totalDays; with totalDays = 0 the
\* averages are NaN or Infinity and every `<=` is false
workloadLevelOf(totalTasks, totalMinutes, totalDays) ==
  IF totalDays = 0 THEN "overloaded"
  ELSE IF totalTasks <= 2 * totalDays /\ totalMinutes <= 120 * totalDays THEN "light"
  ELSE IF totalTasks <= 4 * totalDays /\ totalMinutes <= 240 * totalDays THEN "moderate"
  ELSE IF totalTasks <= 6 * totalDays /\ totalMinutes <= 360 * totalDays THEN "heavy"
  ELSE "overloaded"

Recommendation(text, arg) == [text |-> text, arg |-> arg]

\* the messages of the switch on workloadLevel
levelRecommendations(workloadLevel, peakDays, lightDays) ==
  CASE workloadLevel = "light" ->
         <<Recommendation("You have capacity for additional tasks", <<>>)>>
         \o (IF Len(lightDays) > 0
             THEN <<Recommendation("Consider scheduling more important tasks on lighter days", <<>>)>>
             ELSE <<>>)
    [] workloadLevel = "moderate" ->
         << Recommendation("Good workload balance", <<>>),
            Recommendation("Monitor peak days to avoid overcommitment", <<>>) >>
    [] workloadLevel = "heavy" ->
         << Recommendation("High workload detected", <<>>),
            Recommendation("Consider redistributing tasks from peak days", <<>>) >>
         \o (IF Len(peakDays) > 0
             THEN <<Recommendation("Peak workload on", peakDays[1].date)>>
             ELSE <<>>)
    [] workloadLevel = "overloaded" ->
         << Recommendation("Workload may be too high", <<>>),
            Recommendation("Strongly consider reducing or rescheduling tasks", <<>>),
            Recommendation("Focus on high-priority tasks only", <<>>) >>
    [] OTHER -> <<>>

\* categoryDistribution.reduce((max, current) =>
\*   current.percentage > max.percentage ? current : max), on a non-empty array
RECURSIVE dominantFrom(_, _)
dominantFrom(max, rest) ==
  IF rest = <<>> THEN max
  ELSE dominantFrom(IF Head(rest).percentageNum > max.percentageNum THEN Head(rest) ELSE max,
                    Tail(rest))

\* generateWorkloadRecommendations: reduce without an initial value throws a
\* TypeError on an empty array
generateWorkloadRecommendations(workloadLevel, peakDays, lightDays, categoryDistribution) ==
  IF categoryDistribution = <<>>
  THEN [raised |-> TRUE, recommendations |-> <<>>]
  ELSE LET dominantCategory == dominantFrom(Head(categoryDistribution),
                                            Tail(categoryDistribution))
       IN [ raised |-> FALSE,
            recommendations |->
              levelRecommendations(workloadLevel, peakDays, lightDays)
              \o (IF dominantCategory.percentageNum > 50 * dominantCategory.percentageDen
                  THEN <<Recommendation("tasks dominate your schedule",
                                        dominantCategory.category)>>
                  ELSE <<>>) ]

\* calculateWorkloadAnalysis: `raised` tells whether the call threw; `analysis`
\* is the object the return statement builds from the locals; `dailyWorkload`
\* is the local of that name
calculateWorkloadAnalysis(tasks, startDate, endDate) ==
  LET dateRange == getDatesInRange(startDate, endDate)
      totalDays == Len(dateRange)
      totalTasks == Len(tasks)
      totalMinutes == totalMinutesOf(tasks)
      dailyWorkload == dailyWorkloadOf(tasks, dateRange)
      sortedByTasks == sortedByTasksOf(dailyWorkload)
      peakDays == peakDaysOf(sortedByTasks, peakCount(totalDays))
      lightDays == lightDaysOf(sortedByTasks, peakCount(totalDays))
      categoryDistribution == categoryDistributionOf(tasks)
      workloadLevel == workloadLevelOf(totalTasks, totalMinutes, totalDays)
      recs == generateWorkloadRecommendations(workloadLevel, peakDays, lightDays,
                                              categoryDistribution)
  IN [ raised |-> recs.raised,
       dailyWorkload |-> dailyWorkload,
       analysis |->
         [ totalTasks |-> totalTasks,
           totalMinutes |-> totalMinutes,
           totalDays |-> totalDays,
           peakDays |-> peakDays,
           lightDays |-> lightDays,
           categoryDistribution |-> categoryDistribution,
           workloadLevel |-> workloadLevel,
           recommendations |-> recs.recommendations ] ]

-----------------------------------------------------------------------------
(* Conflict validation (planning utilities). *)

\* timeString.split(':').map(Number), hours * 60 + minutes
timeToMinutes(timeString) == timeString[1] * 60 + timeString[2]

\* mutant: closed intervals, touching counts as overlap
hasTimeConflict_Closed(task1, task2) ==
  IF task1.scheduledTime = <<>> \/ task2.scheduledTime = <<>> THEN FALSE
  ELSE LET start1 == timeToMinutes(task1.scheduledTime)
           end1 == start1 + durationOr30(task1)
           start2 == timeToMinutes(task2.scheduledTime)
           end2 == start2 + durationOr30(task2)
       IN start1 <= end2 /\ start2 <= end1

hasTimeConflict(task1, task2) ==
  IF task1.scheduledTime = <<>> \/ task2.scheduledTime = <<>> THEN FALSE
  ELSE LET start1 == timeToMinutes(task1.scheduledTime)
           end1 == start1 + durationOr30(task1)
           start2 == timeToMinutes(task2.scheduledTime)
           end2 == start2 + durationOr30(task2)
       IN start1 < end2 /\ start2 < end1

\* an entry of the conflict list; reason is the message's fixed text and arg
\* the values it interpolates
Conflict(date, reason, arg, severity) ==
  [date |-> date, reason |-> reason, arg |-> arg, severity |-> severity]

\* the keys of tasksByDate, in insertion order
RECURSIVE datesOf(_, _)
datesOf(tasks, seen) ==
  IF tasks = <<>> THEN seen
  ELSE datesOf(Tail(tasks),
               IF Head(tasks).scheduledDate \in Range(seen) THEN seen
               ELSE Append(seen, Head(tasks).scheduledDate))

\* Math.round(totalMinutes / 60)
roundedHours(totalMinutes) == (totalMinutes + 30) \div 60

\* a check on the day's total minutes that reports 480 as overloaded and 360
\* as heavy
overloadConflicts_Inclusive(dayTasks, date) ==
  LET totalMinutes == totalMinutesOf(dayTasks)
  IN IF totalMinutes >= 480
     THEN <<Conflict(date, "Overloaded day", <<roundedHours(totalMinutes)>>, "high")>>
     ELSE IF totalMinutes >= 360
     THEN <<Conflict(date, "Heavy workload", <<roundedHours(totalMinutes)>>, "medium")>>
     ELSE <<>>

\* the check on the day's total minutes
overloadConflicts(dayTasks, date) ==
  LET totalMinutes == totalMinutesOf(dayTasks)
  IN IF totalMinutes > 480
     THEN <<Conflict(date, "Overloaded day", <<roundedHours(totalMinutes)>>, "high")>>
     ELSE IF totalMinutes > 360
     THEN <<Conflict(date, "Heavy workload", <<roundedHours(totalMinutes)>>, "medium")>>
     ELSE <<>>

\* the check on the day's number of tasks
taskCountConflicts(dayTasks, date) ==
  LET taskCount == Len(dayTasks)
  IN IF taskCount > 8
     THEN <<Conflict(date, "Too many tasks", <<taskCount>>, "high")>>
     ELSE IF taskCount > 6
     THEN <<Conflict(date, "Many tasks", <<taskCount>>, "medium")>>
     ELSE <<>>

\* the nested loops over scheduledTasks, from the pair (i, j) on
RECURSIVE timeConflictLoop(_, _, _, _)
timeConflictLoop(scheduledTasks, i, j, date) ==
  IF i > Len(scheduledTasks) - 1 THEN <<>>
  ELSE IF j > Len(scheduledTasks) THEN timeConflictLoop(scheduledTasks, i + 1, i + 2, date)
  ELSE (IF hasTimeConflict(scheduledTasks[i], scheduledTasks[j])
        THEN <<Conflict(date, "Time conflict between",
                        <<scheduledTasks[i].title, scheduledTasks[j].title>>, "high")>>
        ELSE <<>>)
       \o timeConflictLoop(scheduledTasks, i, j + 1, date)

\* the body of tasksByDate.forEach for one date
dayConflicts(allTasks, date) ==
  LET dayTasks == SelectSeq(allTasks, LAMBDA task : task.scheduledDate = date)
      scheduledTasks == SelectSeq(dayTasks, LAMBDA task : task.scheduledTime # <<>>)
  IN overloadConflicts(dayTasks, date)
     \o taskCountConflicts(dayTasks, date)
     \o timeConflictLoop(scheduledTasks, 1, 2, date)

RECURSIVE conflictsOfDates(_, _)
conflictsOfDates(allTasks, dates) ==
  IF dates = <<>> THEN <<>>
  ELSE dayConflicts(allTasks, Head(dates)) \o conflictsOfDates(allTasks, Tail(dates))

validatePlanningConflicts(plannedTasks, existingTasks) ==
  LET allTasks == existingTasks \o plannedTasks
  IN conflictsOfDates(allTasks, datesOf(allTasks, <<>>))

-----------------------------------------------------------------------------
(* Double-precision arithmetic (IEEE 754 binary64, round to nearest even) on
   the values (index / tasks.length) * filteredDates.length takes.  A positive
   double is limbs * 2^-(54 + shift): limbs is a number in base 2^18, the
   first limb unbounded, whose significant bits are at most 53. *)

LimbBase == 2^18

\* the carries of a four-limb number
CarryLimbs(v) ==
  LET c4 == v[4] \div LimbBase
      c3 == (v[3] + c4) \div LimbBase
      c2 == (v[2] + c3) \div LimbBase
  IN << v[1] + c2, (v[2] + c3) % LimbBase, (v[3] + c4) % LimbBase, v[4] % LimbBase >>

\* the number of bits of t
BitLength(t) == CHOOSE b \in 0..30 : t < 2^b /\ (b = 0 \/ 2^(b - 1) <= t)

DoubleZero == [limbs |-> <<0, 0, 0, 0>>, shift |-> 0]

\* a / b in doubles, for integers 0 <= a < b < 2^12: 54 quotient bits by
\* long division, rounded to 53
DoubleQuotient(a, b) ==
  IF a = 0 THEN DoubleZero
  ELSE LET k == CHOOSE k \in 1..12 : b <= a * 2^k /\ a * 2^k < 2 * b
           v1 == (a * 2^k) * 2^17
           v2 == (v1 % b) * LimbBase
           v3 == (v2 % b) * LimbBase
           l3 == v3 \div b
           roundUp == l3 % 2 = 1 /\ (v3 % b # 0 \/ (l3 \div 2) % 2 = 1)
       IN [ limbs |-> CarryLimbs(<< 0, v1 \div b, v2 \div b,
                                    (l3 - (l3 % 2)) + (IF roundUp THEN 2 ELSE 0) >>),
            shift |-> k - 1 ]

\* d * n in doubles, for an integer 0 <= n < 2^12: the exact product rounded
\* to 53 bits
DoubleTimes(d, n) ==
  LET p == CarryLimbs(<<d.limbs[1] * n, d.limbs[2] * n, d.limbs[3] * n, d.limbs[4] * n>>)
      drop == 2^(1 + BitLength(p[1]))
      dropped == p[4] % drop
      roundUp == \/ 2 * dropped > drop
                 \/ 2 * dropped = drop /\ (p[4] \div drop) % 2 = 1
  IN [ limbs |-> CarryLimbs(<< p[1], p[2], p[3],
                               (p[4] - dropped) + (IF roundUp THEN drop ELSE 0) >>),
       shift |-> d.shift ]

\* Math.floor
DoubleFloor(d) == d.limbs[1] \div 2^(d.shift)

-----------------------------------------------------------------------------
(* Bulk task planning (planning utilities). *)

\* new Date("YYYY-MM-DD")
parseDateString(dateString) == CHOOSE date \in CalendarDays : Civil[date] = dateString

BulkTaskCreation(tasks, startDate, endDate, distribution, skipWeekends) ==
  [ tasks |-> tasks,
    dateRange |-> [startDate |-> startDate, endDate |-> endDate],
    distribution |-> distribution,
    skipWeekends |-> skipWeekends ]

\* availableDates.filter(...): Saturdays and Sundays go when skipWeekends is set
filteredDatesOf(availableDates, skipWeekends) ==
  SelectSeq(availableDates, LAMBDA date : ~(skipWeekends /\ getDay(date) \in {0, 6}))

\* index % filteredDates.length
dailyDateIndex(index, datesLength) == index % datesLength

\* (weekIndex * 7) % filteredDates.length; weekIndex starts at 0 and steps by
\* (weekIndex + 1) % weeksAvailable, so it is index % weeksAvailable
weeklyDateIndex(index, datesLength) ==
  LET weeksAvailable == (datesLength + 6) \div 7
  IN ((index % weeksAvailable) * 7) % datesLength

\* Math.floor((index / tasks.length) * filteredDates.length)
customDateIndex(index, tasksLength, datesLength) ==
  DoubleFloor(DoubleTimes(DoubleQuotient(index, tasksLength), datesLength))

\* {...task, id, scheduledDate, createdAt, updatedAt}; the clock readings
\* are left out of id, createdAt and updatedAt
plannedTaskOf(task, index, scheduledDate) ==
  [ id |-> <<"bulk", index>>,
    title |-> task.title,
    category |-> task.category,
    scheduledDate |-> scheduledDate,
    scheduledTime |-> task.scheduledTime,
    duration |-> task.duration,
    createdAt |-> "now",
    updatedAt |-> "now" ]

\* generateBulkTaskPlan: with a task to place and no filtered date the index
\* is NaN (daily, weekly) or 0 (custom), filteredDates[index] is undefined and
\* formatDateString(undefined) throws a TypeError
generateBulkTaskPlan(bulkCreation, existingTasks) ==
  LET tasks == bulkCreation.tasks
      startDate == parseDateString(bulkCreation.dateRange.startDate)
      endDate == parseDateString(bulkCreation.dateRange.endDate)
      availableDates == getDatesInRange(startDate, endDate)
      filteredDates == filteredDatesOf(availableDates, bulkCreation.skipWeekends)
      dateIndex(index) ==
        CASE bulkCreation.distribution = "daily" ->
               dailyDateIndex(index, Len(filteredDates))
          [] bulkCreation.distribution = "weekly" ->
               weeklyDateIndex(index, Len(filteredDates))
          [] bulkCreation.distribution = "custom" ->
               customDateIndex(index, Len(tasks), Len(filteredDates))
  IN IF bulkCreation.distribution \notin {"daily", "weekly", "custom"} \/ tasks = <<>>
     THEN [raised |-> FALSE, plannedTasks |-> <<>>]
     ELSE IF filteredDates = <<>>
     THEN [raised |-> TRUE, plannedTasks |-> <<>>]
     ELSE [ raised |-> FALSE,
            plannedTasks |->
              [i \in DOMAIN tasks |->
                 plannedTaskOf(tasks[i], i - 1,
                               formatDateString(filteredDates[dateIndex(i - 1) + 1]))] ]

-----------------------------------------------------------------------------
(* DatabaseService: tasks, recurring templates and recurrence exceptions in
   AsyncStorage.  Every method is awaited by its caller and is one step.  A
   clock reading is the day it falls on; together with the creation counter
   it makes the generated ids. *)

\* a.scheduledTime.localeCompare(b.scheduledTime) < 0 on "HH:MM" strings
TimeBefore(a, b) == a[1] < b[1] \/ (a[1] = b[1] /\ a[2] < b[2])

\* the comparator of getTasks is positive: b goes before a
sortsAfter(a, b) ==
  IF a.scheduledTime # <<>> /\ b.scheduledTime # <<>>
  THEN TimeBefore(b.scheduledTime, a.scheduledTime)
  ELSE b.createdAt < a.createdAt

RECURSIVE insertTask(_, _)
insertTask(task, sorted) ==
  IF sorted = <<>> THEN <<task>>
  ELSE IF sortsAfter(Head(sorted), task) THEN <<task>> \o sorted
  ELSE <<Head(sorted)>> \o insertTask(task, Tail(sorted))

RECURSIVE sortTasksFrom(_, _)
sortTasksFrom(rest, sorted) ==
  IF rest = <<>> THEN sorted
  ELSE sortTasksFrom(Tail(rest), insertTask(Head(rest), sorted))

\* getTasks(): the stored list sorted by scheduled time, else by creation
\* time (a stable sort)
getTasks(tasks) == sortTasksFrom(tasks, <<>>)

\* createTask for a one-time task: [...existingTasks, newTask]
createOneTimeTask(tasks, task, id, now) ==
  Append(getTasks(tasks), ObjectAssign(task, [id |-> id, createdAt |-> now, updatedAt |-> now]))

\* saveRecurringTemplate: replace the template of the same id or push
saveRecurringTemplate(templates, template) ==
  IF \E i \in DOMAIN templates : templates[i].id = template.id
  THEN [i \in DOMAIN templates |->
          IF i = (CHOOSE j \in DOMAIN templates :
                    /\ templates[j].id = template.id
                    /\ \A k \in 1..(j - 1) : templates[k].id # template.id)
          THEN template ELSE templates[i]]
  ELSE Append(templates, template)

\* the id and the timestamps createInstance gives at clock reading now
stampInstances(instances, now) ==
  [i \in DOMAIN instances |->
     ObjectAssign(instances[i],
                  [ id |-> <<"recurring", instances[i].templateId,
                             instances[i].instanceDate, now>>,
                    createdAt |-> now, updatedAt |-> now ])]

\* the days createRecurringTask generates ahead of the task's scheduledDate
InitialWindowDays == 30

\* the instances createRecurringTask appends for a new template
initialInstances(template, scheduledDate, now) ==
  LET startDate == parseDateString(scheduledDate)
  IN stampInstances(generateInstances(template, startDate, startDate + InitialWindowDays, <<>>),
                    now)

\* instances[0] || {...task, id, createdAt, updatedAt}: what
\* createRecurringTask returns
createdTaskOf(instances, task, id, now) ==
  IF instances # <<>> THEN instances[1]
  ELSE ObjectAssign(task, [id |-> id, createdAt |-> now, updatedAt |-> now])

\* updateTask / updateRecurringTemplate: {...item, ...updates, updatedAt} at
\* the first index whose id matches; -1 when none does
findIndexById(items, id) ==
  IF \E i \in DOMAIN items : items[i].id = id
  THEN CHOOSE i \in DOMAIN items :
         items[i].id = id /\ \A k \in 1..(i - 1) : items[k].id # id
  ELSE -1

updateAt(items, index, updates, now) ==
  [i \in DOMAIN items |->
     IF i = index
     THEN ObjectAssign(ObjectAssign(items[i], updates), [updatedAt |-> now])
     ELSE items[i]]

\* instance.templateId !== undefined
hasTemplateId(task) == "templateId" \in DOMAIN task

\* a filter that drops the instances of every template
tasksWithoutTemplate_AnyTemplate(tasks, id) ==
  SelectSeq(getTasks(tasks), LAMBDA task : ~hasTemplateId(task))

\* deleteRecurringTemplate: the tasks kept
tasksWithoutTemplate(tasks, id) ==
  SelectSeq(getTasks(tasks), LAMBDA task : ~hasTemplateId(task) \/ task.templateId # id)

\* the instances of one active template, those already stored included
newTemplateInstances_Unfiltered(template, exceptions, existingTasks, startDate, endDate, now) ==
  LET templateExceptions ==
        SelectSeq(exceptions, LAMBDA ex : ex.templateId = template.id)
  IN stampInstances(generateInstances(template, startDate, endDate, templateExceptions), now)

\* generateRecurringInstances: the new instances of one active template
newTemplateInstances(template, exceptions, existingTasks, startDate, endDate, now) ==
  LET templateExceptions ==
        SelectSeq(exceptions, LAMBDA ex : ex.templateId = template.id)
      instances ==
        stampInstances(generateInstances(template, startDate, endDate, templateExceptions), now)
  IN SelectSeq(instances, LAMBDA instance :
       ~\E i \in DOMAIN existingTasks :
          /\ hasTemplateId(existingTasks[i])
          /\ existingTasks[i].templateId = template.id
          /\ existingTasks[i].instanceDate = instance.instanceDate)

RECURSIVE newInstancesOf(_, _, _, _, _, _)
newInstancesOf(activeTemplates, exceptions, existingTasks, startDate, endDate, now) ==
  IF activeTemplates = <<>> THEN <<>>
  ELSE newTemplateInstances(Head(activeTemplates), exceptions, existingTasks,
                            startDate, endDate, now)
       \o newInstancesOf(Tail(activeTemplates), exceptions, existingTasks,
                         startDate, endDate, now)

\* a generation that does not look at isActive
generateRecurringInstances_AllTemplates(templates, exceptions, tasks, today, daysAhead) ==
  LET existingTasks == getTasks(tasks)
      newInstances == newInstancesOf(templates, exceptions, existingTasks,
                                     today, today + daysAhead, today)
  IN IF templates = <<>> \/ newInstances = <<>> THEN tasks
     ELSE existingTasks \o newInstances

\* generateRecurringInstances(daysAhead): the task list it leaves
generateRecurringInstances(templates, exceptions, tasks, today, daysAhead) ==
  LET activeTemplates == SelectSeq(templates, LAMBDA t : t.isActive)
      existingTasks == getTasks(tasks)
      newInstances == newInstancesOf(activeTemplates, exceptions, existingTasks,
                                     today, today + daysAhead, today)
  IN IF activeTemplates = <<>> \/ newInstances = <<>> THEN tasks
     ELSE existingTasks \o newInstances

\* a <= b on "YYYY-MM-DD" strings
DateStringAtMost(a, b) ==
  \/ a[1] < b[1]
  \/ a[1] = b[1] /\ a[2] < b[2]
  \/ a[1] = b[1] /\ a[2] = b[2] /\ a[3] <= b[3]

\* a cleanup that keeps by date alone
cleanupOldInstances_ByDateOnly(instances, daysToKeep, today) ==
  LET cutoffStr == formatDateString(today - daysToKeep)
  IN SelectSeq(instances, LAMBDA instance :
       DateStringAtMost(cutoffStr, instance.scheduledDate))

\* RecurringTaskService.cleanupOldInstances
cleanupOldInstances(instances, daysToKeep, today) ==
  LET cutoffStr == formatDateString(today - daysToKeep)
  IN SelectSeq(instances, LAMBDA instance :
       DateStringAtMost(cutoffStr, instance.scheduledDate) \/ instance.status = "completed")

\* cleanupOldRecurringInstances(daysToKeep): the task list it leaves
cleanupOldRecurringInstances(tasks, daysToKeep, today) ==
  LET all == getTasks(tasks)
      recurringInstances == SelectSeq(all, hasTemplateId)
      nonRecurringTasks == SelectSeq(all, LAMBDA task : ~hasTemplateId(task))
  IN nonRecurringTasks \o cleanupOldInstances(recurringInstances, daysToKeep, today)

-----------------------------------------------------------------------------
(* Smart scheduler (planning utilities).  A confidence is kept in
   thousandths: the factors 0.3, 0.6, 0.2, 0.7 and 1.2 are tenths and at most
   three are applied, so every product is a whole number of thousandths; the
   doubles of the code are within 1e-15 of these values, and the one product
   that sits on the 0.3 threshold, 1.0 * 0.3, is the double 0.3 itself. *)

\* addMinutesToTime: the hours are not wrapped at 24
addMinutesToTime(timeString, minutes) ==
  LET totalMinutes == timeString[1] * 60 + timeString[2] + minutes
  IN <<totalMinutes \div 60, totalMinutes % 60>>

getTimeDifferenceMinutes(time1, time2) ==
  (time2[1] * 60 + time2[2]) - (time1[1] * 60 + time1[2])

RECURSIVE insertByTime(_, _)
insertByTime(task, sorted) ==
  IF sorted = <<>> THEN <<task>>
  ELSE IF TimeBefore(task.scheduledTime, Head(sorted).scheduledTime)
  THEN <<task>> \o sorted
  ELSE <<Head(sorted)>> \o insertByTime(task, Tail(sorted))

RECURSIVE sortByTimeFrom(_, _)
sortByTimeFrom(rest, sorted) ==
  IF rest = <<>> THEN sorted
  ELSE sortByTimeFrom(Tail(rest), insertByTime(Head(rest), sorted))

\* existingTasks.filter(task => task.scheduledTime).sort(localeCompare)
scheduledTasksOf(existingTasks) ==
  sortByTimeFrom(SelectSeq(existingTasks, LAMBDA task : task.scheduledTime # <<>>), <<>>)

\* the gap loop from pair i on: the slot returned, <<>> when no pair
\* qualifies
RECURSIVE gapSlotFrom(_, _, _)
gapSlotFrom(scheduledTasks, newTask, i) ==
  IF i > Len(scheduledTasks) - 1 THEN <<>>
  ELSE LET currentTask == scheduledTasks[i]
           nextTask == scheduledTasks[i + 1]
           currentEnd == addMinutesToTime(currentTask.scheduledTime,
                                          durationOr30(currentTask))
           gapMinutes == getTimeDifferenceMinutes(currentEnd, nextTask.scheduledTime)
       IN IF gapMinutes >= durationOr30(newTask) + 15
          THEN <<addMinutesToTime(currentEnd, 15)>>
          ELSE gapSlotFrom(scheduledTasks, newTask, i + 1)

\* only the hour of workingHours.start and workingHours.end is read
findBestTimeSlot(existingTasks, newTask, workingHours) ==
  LET scheduledTasks == scheduledTasksOf(existingTasks)
      workStart == workingHours.start[1]
      workEnd == workingHours.end[1]
      gapSlot == gapSlotFrom(scheduledTasks, newTask, 1)
      lastTask == scheduledTasks[Len(scheduledTasks)]
      afterLastTask == addMinutesToTime(lastTask.scheduledTime,
                                        durationOr30(lastTask) + 15)
  IN IF newTask.scheduledTime # <<>> THEN newTask.scheduledTime
     ELSE IF scheduledTasks = <<>> THEN <<workStart, 0>>
     ELSE IF gapSlot # <<>> THEN gapSlot[1]
     ELSE IF afterLastTask[1] < workEnd THEN afterLastTask
     ELSE <<workStart, 0>>

\* userPreferences.maxTasksPerDay || 6 and userPreferences.maxMinutesPerDay || 480
valueOr(optional, default) ==
  IF optional = <<>> \/ optional[1] = 0 THEN default ELSE optional[1]

\* the confidence of a date, in thousandths
confidenceOf(dayTaskCount, dayMinutes, sameCategoryCount, maxTasks, maxMinutes) ==
  LET byCount == IF dayTaskCount >= maxTasks THEN 3
                 ELSE IF dayTaskCount * 10 >= maxTasks * 8 THEN 6
                 ELSE 10
      byMinutes == IF dayMinutes >= maxMinutes THEN 2
                   ELSE IF dayMinutes * 10 >= maxMinutes * 8 THEN 7
                   ELSE 10
      boost == IF sameCategoryCount > 0 /\ sameCategoryCount < 3 THEN 12 ELSE 10
  IN byCount * byMinutes * boost

workloadImpactOf(newTotalMinutes, maxMinutes) ==
  IF newTotalMinutes * 10 <= maxMinutes * 5 THEN "minimal"
  ELSE IF newTotalMinutes * 10 <= maxMinutes * 8 THEN "moderate"
  ELSE "significant"

reasonOf(dayTaskCount, sameCategoryCount, category) ==
  IF dayTaskCount = 0 THEN <<"Free day - ideal for scheduling">>
  ELSE IF dayTaskCount <= 2 THEN <<"Light workload day">>
  ELSE IF sameCategoryCount > 0 THEN <<"Good fit with existing ", category, " tasks">>
  ELSE <<"Available slot">>

\* one pass of the loop over availableDates: the suggestion pushed for the
\* date, as a sequence of length 0 or 1
suggestionFor(task, existingTasks, date, userPreferences) ==
  LET dayTasks == getTasksForDate(existingTasks, date)
      dayTaskCount == Len(dayTasks)
      dayMinutes == totalMinutesOf(dayTasks)
      maxTasks == valueOr(userPreferences.maxTasksPerDay, 6)
      maxMinutes == valueOr(userPreferences.maxMinutesPerDay, 480)
      sameCategoryCount ==
        Len(SelectSeq(dayTasks, LAMBDA t : t.category = task.category))
      confidence == confidenceOf(dayTaskCount, dayMinutes, sameCategoryCount,
                                 maxTasks, maxMinutes)
  IN IF confidence > 300
     THEN << [ suggestedDate |-> formatDateString(date),
               suggestedTime |-> findBestTimeSlot(dayTasks, task, userPreferences.workingHours),
               confidence |-> Min2(confidence, 1000),
               reason |-> reasonOf(dayTaskCount, sameCategoryCount, task.category),
               workloadImpact |-> workloadImpactOf(dayMinutes + durationOr30(task), maxMinutes),
               alternatives |-> <<>> ] >>
     ELSE <<>>

RECURSIVE suggestionsOver(_, _, _, _)
suggestionsOver(task, existingTasks, dates, userPreferences) ==
  IF dates = <<>> THEN <<>>
  ELSE suggestionFor(task, existingTasks, Head(dates), userPreferences)
       \o suggestionsOver(task, existingTasks, Tail(dates), userPreferences)

\* suggestions.sort((a, b) => b.confidence - a.confidence), a stable sort
RECURSIVE insertByConfidence(_, _)
insertByConfidence(suggestion, sorted) ==
  IF sorted = <<>> THEN <<suggestion>>
  ELSE IF Head(sorted).confidence < suggestion.confidence
  THEN <<suggestion>> \o sorted
  ELSE <<Head(sorted)>> \o insertByConfidence(suggestion, Tail(sorted))

RECURSIVE sortByConfidenceFrom(_, _)
sortByConfidenceFrom(rest, sorted) ==
  IF rest = <<>> THEN sorted
  ELSE sortByConfidenceFrom(Tail(rest), insertByConfidence(Head(rest), sorted))

\* array.slice(0, n)
sliceTo(array, n) == SubSeq(array, 1, Min2(n, Len(array)))

\* alternatives that are the first three of the sorted suggestions, the
\* suggestion's own date included
alternativesOf_OwnDateKept(suggestion, suggestions) ==
  LET others == sliceTo(suggestions, 3)
  IN [i \in DOMAIN others |->
        [ date |-> others[i].suggestedDate, time |-> others[i].suggestedTime,
          confidence |-> others[i].confidence, reason |-> others[i].reason ]]

\* the alternatives of a suggestion: the first three of the sorted
\* suggestions on another date
alternativesOf(suggestion, suggestions) ==
  LET others == sliceTo(SelectSeq(suggestions,
                                  LAMBDA s : s.suggestedDate # suggestion.suggestedDate), 3)
  IN [i \in DOMAIN others |->
        [ date |-> others[i].suggestedDate, time |-> others[i].suggestedTime,
          confidence |-> others[i].confidence, reason |-> others[i].reason ]]

\* a filter that keeps every date of the range
availableDatesOf_Unfiltered(task, dates) ==
  dates

\* dates.filter(...): Saturdays and Sundays go for a task of category 'work'
availableDatesOf(task, dates) ==
  SelectSeq(dates, LAMBDA date : task.category = "work" => getDay(date) \notin {0, 6})

generateSmartSchedulingSuggestions(task, existingTasks, dateRange, userPreferences) ==
  LET dates == getDatesInRange(dateRange.startDate, dateRange.endDate)
      availableDates == availableDatesOf(task, dates)
      suggestions ==
        sortByConfidenceFrom(
          suggestionsOver(task, existingTasks, availableDates, userPreferences), <<>>)
      top == sliceTo(suggestions, 5)
  IN [i \in DOMAIN top |->
        [top[i] EXCEPT !.alternatives = alternativesOf(top[i], suggestions)]]

-----------------------------------------------------------------------------
(* PlanningService: the task templates in AsyncStorage, the bulk plan and its
   preview.  The updatedAt of a template is a clock reading and is left out. *)

TaskTemplate(id, isActive, usageCount) ==
  [id |-> id, isActive |-> isActive, usageCount |-> usageCount]

\* seedInitialTemplates: the first two of the seeded templates
initialTemplates ==
  << TaskTemplate("template-1", TRUE, 0), TaskTemplate("template-2", TRUE, 0) >>

PlTemplateIds == {initialTemplates[i].id : i \in DOMAIN initialTemplates}

\* the place of a template in a list kept in descending usageCount order,
\* behind its equals
RECURSIVE insertByUsage(_, _)
insertByUsage(template, sorted) ==
  IF sorted = <<>> THEN <<template>>
  ELSE IF Head(sorted).usageCount < template.usageCount THEN <<template>> \o sorted
  ELSE <<Head(sorted)>> \o insertByUsage(template, Tail(sorted))

RECURSIVE sortByUsageFrom(_, _)
sortByUsageFrom(rest, sorted) ==
  IF rest = <<>> THEN sorted
  ELSE sortByUsageFrom(Tail(rest), insertByUsage(Head(rest), sorted))

\* getTaskTemplates(): the active templates, most used first
getTaskTemplates(stored) ==
  sortByUsageFrom(SelectSeq(stored, LAMBDA template : template.isActive), <<>>)

\* createTaskTemplate(template): [...existingTemplates, newTemplate] is
\* written, existingTemplates being what getTaskTemplates() returned
createTaskTemplate(stored, template, id) ==
  Append(getTaskTemplates(stored), ObjectAssign(template, [id |-> id, usageCount |-> 0]))

\* deleteTaskTemplate(id): the list getTaskTemplates() returned is written
\* back without the entries of that id
deleteTaskTemplate(stored, id) ==
  SelectSeq(getTaskTemplates(stored), LAMBDA t : t.id # id)

\* updateTaskTemplate(id, updates): the list getTaskTemplates() returned is
\* written back with the entry replaced; `raised` when the id is not in it
updateTaskTemplate(stored, id, updates) ==
  LET templates == getTaskTemplates(stored)
      templateIndex == findIndexById(templates, id)
  IN IF templateIndex = -1 THEN [raised |-> TRUE, stored |-> stored]
     ELSE [ raised |-> FALSE,
            stored |-> [i \in DOMAIN templates |->
                          IF i = templateIndex THEN ObjectAssign(templates[i], updates)
                          ELSE templates[i]] ]

\* incrementTemplateUsage(id): the stored templates it leaves
incrementTemplateUsage(stored, id) ==
  LET templates == getTaskTemplates(stored)
      templateIndex == findIndexById(templates, id)
  IN IF templateIndex = -1 THEN stored
     ELSE updateTaskTemplate(stored, id,
                             [usageCount |-> templates[templateIndex].usageCount + 1]).stored

\* createBulkTasks(bulkCreation, existingTasks): the plan and the stored
\* templates it leaves; the plan is made before the usage is counted
createBulkTasks(stored, bulkCreation, existingTasks) ==
  LET plan == generateBulkTaskPlan(bulkCreation, existingTasks)
  IN [ raised |-> plan.raised,
       plannedTasks |-> plan.plannedTasks,
       stored |-> IF ~plan.raised /\ bulkCreation.templateId # <<>>
                  THEN incrementTemplateUsage(stored, bulkCreation.templateId[1])
                  ELSE stored ]

\* one entry of the preview's suggestions
PreviewSuggestion(type, count, affectedDates) ==
  [type |-> type, count |-> count, affectedDates |-> affectedDates]

\* array[0]?.totalMinutes || 0
firstMinutesOr0(days) == IF days = <<>> THEN 0 ELSE days[1].totalMinutes

generatePlanningPreviewSuggestions(workloadAnalysis, conflicts) ==
  LET highSeverityConflicts == SelectSeq(conflicts, LAMBDA c : c.severity = "high")
      peakDates == [i \in DOMAIN workloadAnalysis.peakDays |-> workloadAnalysis.peakDays[i].date]
      lightDates == [i \in DOMAIN workloadAnalysis.lightDays |-> workloadAnalysis.lightDays[i].date]
  IN (IF highSeverityConflicts # <<>>
      THEN << PreviewSuggestion("reschedule", <<Len(highSeverityConflicts)>>,
                                [i \in DOMAIN highSeverityConflicts |->
                                   highSeverityConflicts[i].date]) >>
      ELSE <<>>)
     \o (IF workloadAnalysis.workloadLevel = "overloaded"
         THEN <<PreviewSuggestion("reduce", <<>>, peakDates)>>
         ELSE <<>>)
     \o (IF /\ firstMinutesOr0(workloadAnalysis.peakDays)
                 > firstMinutesOr0(workloadAnalysis.lightDays) * 3
            /\ workloadAnalysis.peakDays # <<>>
         THEN <<PreviewSuggestion("distribute", <<>>, peakDates \o lightDates)>>
         ELSE <<>>)

\* generatePlanningPreview: `raised` when calculateWorkloadAnalysis throws
generatePlanningPreview(plannedTasks, existingTasks, dateRange) ==
  LET allTasks == existingTasks \o plannedTasks
      startStr == formatDateString(dateRange.startDate)
      endStr == formatDateString(dateRange.endDate)
      periodTasks ==
        SelectSeq(allTasks, LAMBDA task :
          DateStringAtMost(startStr, task.scheduledDate)
            /\ DateStringAtMost(task.scheduledDate, endStr))
      workload == calculateWorkloadAnalysis(periodTasks, dateRange.startDate,
                                            dateRange.endDate)
      conflicts == validatePlanningConflicts(plannedTasks, existingTasks)
  IN [ raised |-> workload.raised,
       preview |->
         [ dateRange |-> [startDate |-> startStr, endDate |-> endStr],
           plannedTasks |-> plannedTasks,
           workloadAnalysis |-> workload.analysis,
           conflicts |-> conflicts,
           suggestions |-> generatePlanningPreviewSuggestions(workload.analysis, conflicts) ] ]

\* for (const task of planningPreview.plannedTasks) await createTask(task):
\* the stored tasks after the loop; the n-th stored task gets id and clock n
RECURSIVE createTasksFrom(_, _)
createTasksFrom(stored, plannedTasks) ==
  IF plannedTasks = <<>> THEN stored
  ELSE createTasksFrom(
         createOneTimeTask(stored, Head(plannedTasks),
                           <<"task", Len(stored) + 1>>, Len(stored) + 1),
         Tail(plannedTasks))

\* an approval that first compares the preview's conflicts with those of the
\* tasks now stored
approvedTasks_IfStillValid(tasks, planningPreview) ==
  IF validatePlanningConflicts(planningPreview.plannedTasks, tasks)
       = planningPreview.conflicts
  THEN createTasksFrom(tasks, planningPreview.plannedTasks)
  ELSE tasks

\* handlePlanApproval: the stored tasks after the loop over the preview's
\* planned tasks
approvedTasks(tasks, planningPreview) ==
  createTasksFrom(tasks, planningPreview.plannedTasks)

\* PlanningPreview component: 'Apply Plan' is disabled by a high-severity
\* conflict
hasHighSeverityConflicts(preview) ==
  \E i \in DOMAIN preview.conflicts : preview.conflicts[i].severity = "high"

-----------------------------------------------------------------------------
(* Inputs of generateInstances and generatePreview. *)

Intervals == 1..MaxInterval

WeeklyPattern(interval, has, days) ==
  [ type |-> "weekly", interval |-> interval,
    hasWeeklyOptions |-> has, daysOfWeek |-> days ]

Patterns ==
  {[ type |-> t, interval |-> n, hasWeeklyOptions |-> FALSE, daysOfWeek |-> <<>> ] :
      t \in {"daily", "monthly"}, n \in Intervals}
  \cup {WeeklyPattern(n, FALSE, <<>>) : n \in Intervals}
  \cup {WeeklyPattern(n, TRUE, days) :
          n \in Intervals, days \in {<<>>, <<1, 3, 5>>, <<0, 6>>}}

Template(id, pattern, createdAt) ==
  [ id |-> id, title |-> "T", category |-> "work",
    scheduledTime |-> <<9, 0>>, duration |-> <<45>>,
    recurrencePattern |-> pattern, createdAt |-> createdAt, isActive |-> TRUE ]

\* 2024-02-27 (a Tuesday, before a leap day and the 1st of March) and
\* 2024-12-29 (a Sunday, before the 1st of January)
StartDays == {57, 363}

Exception(templateId, date, type, has, modifiedTask) ==
  [ templateId |-> templateId, date |-> date, type |-> type,
    hasModifiedTask |-> has, modifiedTask |-> modifiedTask ]

\* the exceptions offered for a range that starts on day s
ExceptionPool(s) ==
  LET d1 == formatDateString(s + 1)
      d3 == formatDateString(s + 3)
  IN { Exception("t1", d1, "skip", FALSE, <<>>),
       Exception("t1", d3, "skip", FALSE, <<>>),
       Exception("t1", d1, "modify", TRUE, [title |-> "X"]),
       Exception("t1", d1, "modify", TRUE, [title |-> "W", scheduledTime |-> <<10, 0>>]),
       Exception("t1", d1, "modify", FALSE, <<>>),
       Exception("t1", d3, "modify", TRUE, <<>>),
       Exception("t1", d3, "modify", TRUE, [title |-> "Y"]),
       Exception("t2", d1, "skip", FALSE, <<>>),
       Exception("t2", d3, "modify", TRUE, [title |-> "Z"]) }

\* the day the store is first used: Monday 2024-02-26
DbFirstDay == 56

-----------------------------------------------------------------------------
(* The initial state: no operation has been called. *)

Init ==
  /\ gi_pc = "idle" /\ gi_template = <<>> /\ gi_start = 0 /\ gi_end = 0
  /\ gi_exceptions = <<>> /\ gi_result = <<>>
  /\ pv_pc = "idle" /\ pv_pattern = <<>> /\ pv_start = 0 /\ pv_count = 0
  /\ pv_current = 0 /\ pv_generated = 0 /\ pv_dates = <<>>
  /\ wl_pc = "idle" /\ wl_tasks = <<>> /\ wl_start = 0 /\ wl_end = 0
  /\ wl_result = <<>>
  /\ vc_pc = "idle" /\ vc_planned = <<>> /\ vc_existing = <<>> /\ vc_result = <<>>
  /\ bk_pc = "idle" /\ bk_bulkCreation = <<>> /\ bk_result = <<>>
  /\ db_templates = <<>> /\ db_tasks = <<>> /\ db_exceptions = <<>>
  /\ db_today = DbFirstDay /\ db_created = 0
  /\ db_last = [op |-> "none", arg |-> <<>>, tasks |-> <<>>]
  /\ ts_pc = "idle" /\ ts_existingTasks = <<>> /\ ts_newTask = <<>>
  /\ ts_workingHours = <<>> /\ ts_result = <<>>
  /\ dd_pc = "idle" /\ dd_tasks = <<>> /\ dd_draft = <<>> /\ dd_result = <<>>
  /\ dd_result30 = <<>>
  /\ pl_tasks = <<>> /\ pl_templates = initialTemplates
  /\ pl_planningPreview = <<>> /\ pl_bulkCreation = <<>> /\ pl_previewTasks = <<>>
  /\ pl_instantiated = [id \in PlTemplateIds |-> 0] /\ pl_flows = 0
  /\ pl_last = [op |-> "none"]
  /\ ss_pc = "idle" /\ ss_task = <<>> /\ ss_existingTasks = <<>>
  /\ ss_dateRange = <<>> /\ ss_userPreferences = <<>> /\ ss_result = <<>>
  /\ tp_stored = initialTemplates /\ tp_created = 0 /\ tp_last = [op |-> "none"]
  /\ pe_pc = "idle" /\ pe_template = <<>> /\ pe_start = 0 /\ pe_end = 0
  /\ pe_result = <<>> /\ pe_plainResult = <<>>

GiCall(template, startDate, endDate, exceptions) ==
  /\ gi_template' = template
  /\ gi_start' = startDate
  /\ gi_end' = endDate
  /\ gi_exceptions' = exceptions
  /\ gi_result' = generateInstances(template, startDate, endDate, exceptions)

\* a call of generateInstances(template, startDate, endDate, exceptions):
\* every pattern over every range without exceptions, and every pattern with
\* every exception list over a range that holds one and a range that holds
\* both of the exceptions' dates
GenerateInstances ==
  /\ gi_pc = "idle"
  /\ \E p \in Patterns, s \in StartDays :
       \/ \E len \in (-2)..MaxSpan : GiCall(Template("t1", p, 0), s, s + len, <<>>)
       \/ \E len \in {2, MaxSpan}, n \in 1..MaxExceptions :
            \E exs \in [1..n -> ExceptionPool(s)] :
              GiCall(Template("t1", p, 0), s, s + len, exs)
  /\ gi_pc' = "done"
  /\ UNCHANGED <<pv_vars, wl_vars, vc_vars, bk_vars, db_vars, ts_vars, dd_vars, pl_vars, ss_vars, tp_vars, pe_vars>>

SpecRecur == Init /\ [][GenerateInstances]_vars

-----------------------------------------------------------------------------
(* Calls of generateInstances on patterns with an end. *)

\* the pattern with its optional endDate and endAfterOccurrences
PatternWithEnd(pattern, endDate, endAfterOccurrences) ==
  ObjectAssign(pattern, [endDate |-> endDate, endAfterOccurrences |-> endAfterOccurrences])

\* a call of generateInstances(template, startDate, endDate) on a template
\* whose pattern ends before the range, inside it, or not at all, after one
\* occurrence or after any number, and the same call on the template without
\* the two fields
GenerateInstancesWithEnd ==
  /\ pe_pc = "idle"
  /\ \E pattern \in Patterns, s \in StartDays, len \in {-1, 0, 3, MaxSpan} :
       \E patternEnd \in {<<>>, <<formatDateString(s - 5)>>, <<formatDateString(s + 1)>>},
          endAfterOccurrences \in {<<>>, <<1>>} :
         LET template ==
               Template("t1", PatternWithEnd(pattern, patternEnd, endAfterOccurrences), 0)
             plain == Template("t1", PatternWithEnd(pattern, <<>>, <<>>), 0)
         IN /\ pe_template' = template
            /\ pe_start' = s
            /\ pe_end' = s + len
            /\ pe_result' = generateInstances(template, s, s + len, <<>>)
            /\ pe_plainResult' = generateInstances(plain, s, s + len, <<>>)
  /\ pe_pc' = "done"
  /\ UNCHANGED <<gi_vars, pv_vars, wl_vars, vc_vars, bk_vars, db_vars, ts_vars, dd_vars,
                 pl_vars, ss_vars, tp_vars>>

SpecPatternEnd == Init /\ [][GenerateInstancesWithEnd]_vars

\* a call of generatePreview(pattern, startDate, count): the locals are set up
PreviewCall ==
  /\ pv_pc = "idle"
  /\ \E p \in Patterns, s \in StartDays, count \in 0..MaxCount :
       /\ pv_pattern' = p
       /\ pv_start' = s
       /\ pv_count' = count
       /\ pv_current' = s
  /\ pv_generated' = 0
  /\ pv_dates' = <<>>
  /\ pv_pc' = "loop"
  /\ UNCHANGED <<gi_vars, wl_vars, vc_vars, bk_vars, db_vars, ts_vars, dd_vars, pl_vars, ss_vars, tp_vars, pe_vars>>

\* one iteration of `while (generated < count)`
PreviewStep ==
  /\ pv_pc = "loop"
  /\ pv_generated < pv_count
  /\ LET hit == shouldGenerateForDate(pv_current, pv_pattern)
         dates == IF hit THEN Append(pv_dates, formatDateString(pv_current))
                         ELSE pv_dates
         current == incrementDate(pv_current, pv_pattern)
     IN /\ pv_dates' = dates
        /\ pv_generated' = IF hit THEN pv_generated + 1 ELSE pv_generated
        /\ pv_current' = current
        /\ pv_pc' = IF previewGivesUp(dates, current, pv_start) THEN "done" ELSE "loop"
  /\ UNCHANGED <<pv_pattern, pv_start, pv_count, gi_vars, wl_vars, vc_vars, bk_vars, db_vars, ts_vars, dd_vars, pl_vars, ss_vars, tp_vars, pe_vars>>

\* the loop condition fails: return dates
PreviewReturn ==
  /\ pv_pc = "loop"
  /\ ~(pv_generated < pv_count)
  /\ pv_pc' = "done"
  /\ UNCHANGED <<pv_pattern, pv_start, pv_count, pv_current, pv_generated, pv_dates,
                 gi_vars, wl_vars, vc_vars, bk_vars, db_vars, ts_vars, dd_vars, pl_vars, ss_vars, tp_vars, pe_vars>>

PreviewNext == PreviewCall \/ PreviewStep \/ PreviewReturn

\* the loop is synchronous code: an iteration that can run does run
SpecPreview ==
  Init /\ [][PreviewNext]_vars /\ WF_vars(PreviewStep) /\ WF_vars(PreviewReturn)

-----------------------------------------------------------------------------
(* Calls of calculateWorkloadAnalysis. *)

\* the first day of every analysed range: Tuesday 2024-02-27
WlFirstDay == 57

\* tasks on the first day, on the second day and on the day before the first
WlTaskPool ==
  { Task("A", "work", formatDateString(WlFirstDay), <<>>, <<>>),
    Task("B", "personal", formatDateString(WlFirstDay), <<>>, <<100>>),
    Task("C", "work", formatDateString(WlFirstDay + 1), <<>>, <<100>>),
    Task("D", "personal", formatDateString(WlFirstDay + 1), <<>>, <<>>),
    Task("E", "work", formatDateString(WlFirstDay - 1), <<>>, <<>>),
    Task("F", "health", formatDateString(WlFirstDay), <<>>, <<400>>) }

\* n equal tasks on the first day
WlLoad(n, duration) ==
  [i \in 1..n |-> Task("L", "work", formatDateString(WlFirstDay), <<>>, duration)]

\* the number of tasks on the day at `offset` of a spread list: none on the
\* first day, then two and one in turn
WlSpreadCount(offset) == IF offset = 0 THEN 0 ELSE 1 + (offset % 2)

RECURSIVE WlSpread(_, _)
WlSpread(offset, days) ==
  IF offset >= days THEN <<>>
  ELSE [i \in 1..WlSpreadCount(offset) |->
          Task("S", "work", formatDateString(WlFirstDay + offset), <<>>, <<>>)]
       \o WlSpread(offset + 1, days)

WlCall(tasks, startDate, endDate) ==
  /\ wl_tasks' = tasks
  /\ wl_start' = startDate
  /\ wl_end' = endDate
  /\ wl_result' = calculateWorkloadAnalysis(tasks, startDate, endDate)

\* a call of calculateWorkloadAnalysis(tasks, startDate, endDate, period):
\* every short task list over a range of one, two and seven days; up to
\* MaxLoad equal tasks on one day over one and two days; a list spread over
\* all days of a range of 0 .. MaxRangeDays days
CalculateWorkloadAnalysis ==
  /\ wl_pc = "idle"
  /\ \/ \E n \in 0..MaxTasks, len \in {0, 1, 6} :
          \E tasks \in [1..n -> WlTaskPool] :
            WlCall(tasks, WlFirstDay, WlFirstDay + len)
     \/ \E n \in 0..MaxLoad, duration \in {<<>>, <<60>>, <<200>>}, len \in {0, 1} :
          WlCall(WlLoad(n, duration), WlFirstDay, WlFirstDay + len)
     \/ \E days \in 0..MaxRangeDays :
          WlCall(WlSpread(0, days), WlFirstDay, WlFirstDay + days - 1)
  /\ wl_pc' = "done"
  /\ UNCHANGED <<gi_vars, pv_vars, vc_vars, bk_vars, db_vars, ts_vars, dd_vars, pl_vars, ss_vars, tp_vars, pe_vars>>

SpecWorkload == Init /\ [][CalculateWorkloadAnalysis]_vars

-----------------------------------------------------------------------------
(* Calls of validatePlanningConflicts. *)

\* Wednesday 2024-02-28 and the day after
VcDay == 58

\* date, time and duration of a task: on the first day 09:00 for 45 minutes,
\* 09:30 and 09:45 without duration, 09:00 with duration 0, and no time; on
\* the next day 09:00 for 45 minutes
VcSlots ==
  { <<VcDay, <<9, 0>>, <<45>>>>,
    <<VcDay, <<9, 30>>, <<>>>>,
    <<VcDay, <<9, 45>>, <<>>>>,
    <<VcDay, <<9, 0>>, <<0>>>>,
    <<VcDay, <<>>, <<45>>>>,
    <<VcDay + 1, <<9, 0>>, <<45>>>> }

VcExistingTitles == <<"E1", "E2", "E3", "E4", "E5">>

VcPlannedTitles == <<"P1", "P2", "P3", "P4", "P5">>

VcTask(title, slot) ==
  Task(title, "work", formatDateString(slot[1]), slot[2], slot[3])

\* n equal tasks without a time on the first day
VcLoad(n, duration) ==
  [i \in 1..n |-> Task("L", "work", formatDateString(VcDay), <<>>, duration)]

VcCall(plannedTasks, existingTasks) ==
  /\ vc_planned' = plannedTasks
  /\ vc_existing' = existingTasks
  /\ vc_result' = validatePlanningConflicts(plannedTasks, existingTasks)

\* a call of validatePlanningConflicts(plannedTasks, existingTasks): every
\* list of up to MaxTasks slots split into existing and planned tasks of
\* distinct titles, up to MaxLoad + 2 equal planned tasks on one day beside
\* one existing task, and up to MaxLoad + 2 equal tasks whose total reaches
\* 360 and 480 minutes exactly, alone and beside two overlapping tasks
ValidatePlanningConflicts ==
  /\ vc_pc = "idle"
  /\ \/ \E n \in 0..MaxTasks :
          \E k \in 0..n, slots \in [1..n -> VcSlots] :
            VcCall([i \in 1..(n - k) |-> VcTask(VcPlannedTitles[i], slots[k + i])],
                   [i \in 1..k |-> VcTask(VcExistingTitles[i], slots[i])])
     \/ \E n \in 0..(MaxLoad + 2), duration \in {<<>>, <<60>>, <<200>>} :
          VcCall(VcLoad(n, duration), <<VcTask("E1", <<VcDay, <<9, 0>>, <<45>>>>)>>)
     \/ \E n \in 1..(MaxLoad + 2), duration \in {<<40>>, <<60>>, <<120>>, <<121>>} :
          \E existingTasks \in {<<>>, << VcTask("E1", <<VcDay, <<9, 0>>, <<45>>>>),
                                          VcTask("E2", <<VcDay, <<9, 30>>, <<>>>>) >>} :
            VcCall(VcLoad(n, duration), existingTasks)
  /\ vc_pc' = "done"
  /\ UNCHANGED <<gi_vars, pv_vars, wl_vars, bk_vars, db_vars, ts_vars, dd_vars, pl_vars, ss_vars, tp_vars, pe_vars>>

SpecConflicts == Init /\ [][ValidatePlanningConflicts]_vars

-----------------------------------------------------------------------------
(* Calls of generateBulkTaskPlan. *)

\* Monday 2024-02-26 and Saturday 2024-03-02
BkStartDays == {56, 61}

BkTitles ==
  <<"T00", "T01", "T02", "T03", "T04", "T05", "T06", "T07", "T08", "T09", "T10", "T11">>

\* n drafts of distinct titles, without date
BkDrafts(n) == [i \in 1..n |-> Task(BkTitles[i], "work", <<>>, <<>>, <<>>)]

\* a call of generateBulkTaskPlan(bulkCreation, existingTasks): 0 .. MaxBulkTasks
\* drafts over a range that starts on a Monday or a Saturday and holds no
\* day (end before start), 2, 5, 7, 14 or MaxBulkDays days, under every
\* distribution, weekends kept and skipped
GenerateBulkTaskPlan ==
  /\ bk_pc = "idle"
  /\ \E n \in 0..MaxBulkTasks, s \in BkStartDays, len \in {-1, 1, 4, 6, 13, MaxBulkDays - 1},
        distribution \in {"daily", "weekly", "custom"}, skipWeekends \in BOOLEAN :
       LET bulkCreation ==
             BulkTaskCreation(BkDrafts(n), formatDateString(s), formatDateString(s + len),
                              distribution, skipWeekends)
       IN /\ bk_bulkCreation' = bulkCreation
          /\ bk_result' = generateBulkTaskPlan(bulkCreation, <<>>)
  /\ bk_pc' = "done"
  /\ UNCHANGED <<gi_vars, pv_vars, wl_vars, vc_vars, db_vars, ts_vars, dd_vars, pl_vars, ss_vars, tp_vars, pe_vars>>

SpecBulk == Init /\ [][GenerateBulkTaskPlan]_vars

-----------------------------------------------------------------------------
(* Calls of the DatabaseService. *)

\* every twentieth day of the year (2024-02-29, 03-20, 04-09, 04-29, ...)
\* and a weekly pattern without weekdays
DbPatterns ==
  { [type |-> "daily", interval |-> 20, hasWeeklyOptions |-> FALSE, daysOfWeek |-> <<>>],
    [type |-> "weekly", interval |-> 1, hasWeeklyOptions |-> FALSE, daysOfWeek |-> <<>>] }

\* the ids createTask has given so far
DbTemplateIds == {<<"template", n>> : n \in 1..db_created}

\* the call, its argument and the stored tasks before it
DbRecord(op, arg) == [op |-> op, arg |-> arg, tasks |-> db_tasks]

\* createTask(task) with a one-time task scheduled today
DbCreateTask ==
  /\ db_created < MaxCreated
  /\ db_created' = db_created + 1
  /\ LET task == [ title |-> "O", category |-> "personal", status |-> "pending",
                   scheduledDate |-> formatDateString(db_today),
                   scheduledTime |-> <<8, 0>>, duration |-> <<>>,
                   isRecurring |-> FALSE ]
         id == <<"task", db_created + 1>>
     IN /\ db_tasks' = createOneTimeTask(db_tasks, task, id, db_today)
        /\ db_last' =
             ObjectAssign(DbRecord("createTask", id),
                          [returned |-> ObjectAssign(task, [ id |-> id, createdAt |-> db_today,
                                                            updatedAt |-> db_today ])])
  /\ UNCHANGED <<db_templates, db_exceptions, db_today>>
  /\ UNCHANGED <<gi_vars, pv_vars, wl_vars, vc_vars, bk_vars, ts_vars, dd_vars, pl_vars, ss_vars, tp_vars, pe_vars>>

\* createTask(task) with a recurring task scheduled today: createRecurringTask
DbCreateRecurringTask ==
  /\ db_created < MaxCreated
  /\ \E pattern \in DbPatterns :
       LET template == Template(<<"template", db_created + 1>>, pattern, db_today)
           task == [ title |-> template.title, category |-> template.category,
                     status |-> "pending", scheduledDate |-> formatDateString(db_today),
                     scheduledTime |-> template.scheduledTime,
                     duration |-> template.duration, isRecurring |-> TRUE ]
           instances == initialInstances(template, task.scheduledDate, db_today)
       IN /\ db_templates' = saveRecurringTemplate(db_templates, template)
          /\ db_tasks' = getTasks(db_tasks) \o instances
          /\ db_last' =
               ObjectAssign(DbRecord("createRecurringTask", template.id),
                            [returned |-> createdTaskOf(instances, task,
                                                        <<"task", db_created + 1>>,
                                                        db_today)])
  /\ db_created' = db_created + 1
  /\ UNCHANGED <<db_exceptions, db_today>>
  /\ UNCHANGED <<gi_vars, pv_vars, wl_vars, vc_vars, bk_vars, ts_vars, dd_vars, pl_vars, ss_vars, tp_vars, pe_vars>>

\* updateRecurringTemplate(id, {isActive: false}); an unknown id throws and
\* nothing is written
DbUpdateRecurringTemplate ==
  /\ \E id \in DbTemplateIds, isActive \in {FALSE} :
       LET index == findIndexById(db_templates, id)
       IN /\ db_templates' =
               IF index = -1 THEN db_templates
               ELSE updateAt(db_templates, index, [isActive |-> isActive], db_today)
          /\ db_last' = DbRecord("updateRecurringTemplate",
                                 [id |-> id, isActive |-> isActive, raised |-> index = -1])
  /\ UNCHANGED <<db_tasks, db_exceptions, db_today, db_created>>
  /\ UNCHANGED <<gi_vars, pv_vars, wl_vars, vc_vars, bk_vars, ts_vars, dd_vars, pl_vars, ss_vars, tp_vars, pe_vars>>

\* deleteRecurringTemplate(id)
DbDeleteRecurringTemplate ==
  /\ \E id \in DbTemplateIds :
       /\ db_templates' = SelectSeq(db_templates, LAMBDA t : t.id # id)
       /\ db_tasks' = tasksWithoutTemplate(db_tasks, id)
       /\ db_last' = DbRecord("deleteRecurringTemplate", id)
  /\ UNCHANGED <<db_exceptions, db_today, db_created>>
  /\ UNCHANGED <<gi_vars, pv_vars, wl_vars, vc_vars, bk_vars, ts_vars, dd_vars, pl_vars, ss_vars, tp_vars, pe_vars>>

\* the default of generateRecurringInstances(daysAhead)
DefaultDaysAhead == 30

\* generateRecurringInstances()
DbGenerateRecurringInstances ==
  /\ db_tasks' = generateRecurringInstances(db_templates, db_exceptions, db_tasks,
                                            db_today, DefaultDaysAhead)
  /\ db_last' = DbRecord("generateRecurringInstances", DefaultDaysAhead)
  /\ UNCHANGED <<db_templates, db_exceptions, db_today, db_created>>
  /\ UNCHANGED <<gi_vars, pv_vars, wl_vars, vc_vars, bk_vars, ts_vars, dd_vars, pl_vars, ss_vars, tp_vars, pe_vars>>

\* saveRecurrenceException(exception): a skip of the template's date
\* 2024-04-09
DbSaveRecurrenceException ==
  /\ Len(db_exceptions) < MaxStoredExceptions
  /\ \E id \in DbTemplateIds :
       \E exception \in
            { Exception(id, formatDateString(DbFirstDay + 43), "skip", FALSE, <<>>) } :
         /\ db_exceptions' = Append(db_exceptions, exception)
         /\ db_last' = DbRecord("saveRecurrenceException", exception)
  /\ UNCHANGED <<db_templates, db_tasks, db_today, db_created>>
  /\ UNCHANGED <<gi_vars, pv_vars, wl_vars, vc_vars, bk_vars, ts_vars, dd_vars, pl_vars, ss_vars, tp_vars, pe_vars>>

\* cleanupOldRecurringInstances(daysToKeep), by default 30 days
DbCleanupOldRecurringInstances ==
  /\ \E daysToKeep \in {0, 30} :
       /\ db_tasks' = cleanupOldRecurringInstances(db_tasks, daysToKeep, db_today)
       /\ db_last' = DbRecord("cleanupOldRecurringInstances", daysToKeep)
  /\ UNCHANGED <<db_templates, db_exceptions, db_today, db_created>>
  /\ UNCHANGED <<gi_vars, pv_vars, wl_vars, vc_vars, bk_vars, ts_vars, dd_vars, pl_vars, ss_vars, tp_vars, pe_vars>>

\* completeTask(taskId) of a stored task: updateTask sets status and
\* completedAt
DbCompleteTask ==
  /\ Cardinality({i \in DOMAIN db_tasks : db_tasks[i].status = "completed"}) < MaxCompleted
  /\ \E i \in DOMAIN db_tasks :
       LET tasks == getTasks(db_tasks)
           taskIndex == findIndexById(tasks, db_tasks[i].id)
       IN /\ db_tasks' = updateAt(tasks, taskIndex,
                                  [status |-> "completed", completedAt |-> db_today],
                                  db_today)
          /\ db_last' = DbRecord("completeTask", db_tasks[i].id)
  /\ UNCHANGED <<db_templates, db_exceptions, db_today, db_created>>
  /\ UNCHANGED <<gi_vars, pv_vars, wl_vars, vc_vars, bk_vars, ts_vars, dd_vars, pl_vars, ss_vars, tp_vars, pe_vars>>

\* time passes, 38 days at a time
DbAdvance ==
  /\ db_today < DbFirstDay + 38 * MaxAdvances
  /\ db_today' = db_today + 38
  /\ db_last' = [op |-> "none", arg |-> <<>>, tasks |-> <<>>]
  /\ UNCHANGED <<db_templates, db_tasks, db_exceptions, db_created>>
  /\ UNCHANGED <<gi_vars, pv_vars, wl_vars, vc_vars, bk_vars, ts_vars, dd_vars, pl_vars, ss_vars, tp_vars, pe_vars>>

DbNext ==
  \/ DbCreateTask
  \/ DbCreateRecurringTask
  \/ DbUpdateRecurringTemplate
  \/ DbDeleteRecurringTemplate
  \/ DbGenerateRecurringInstances
  \/ DbSaveRecurrenceException
  \/ DbCleanupOldRecurringInstances
  \/ DbCompleteTask
  \/ DbAdvance

SpecStore == Init /\ [][DbNext]_vars

-----------------------------------------------------------------------------
(* Calls of findBestTimeSlot. *)

\* the day whose tasks are passed: Monday 2024-03-04
TsDay == 63

\* the tasks of the day: 09:00-10:00, 10:30 (no duration), 12:00-12:45,
\* 16:00-16:30, 16:30 (no duration), one without a time, and 09:30-13:30,
\* which runs across three of the others
TsTasks ==
  LET date == formatDateString(TsDay)
  IN { Task("A", "work", date, <<9, 0>>, <<60>>),
       Task("B", "work", date, <<10, 30>>, <<>>),
       Task("C", "personal", date, <<12, 0>>, <<45>>),
       Task("F", "work", date, <<16, 0>>, <<30>>),
       Task("D", "personal", date, <<16, 30>>, <<>>),
       Task("E", "work", date, <<>>, <<30>>),
       Task("G", "personal", date, <<9, 30>>, <<240>>) }

\* working hours on and off the full hour
TsWorkingHours ==
  { [start |-> <<9, 0>>, end |-> <<17, 0>>],
    [start |-> <<8, 30>>, end |-> <<17, 30>>] }

\* a call of findBestTimeSlot(existingTasks, newTask, workingHours)
FindBestTimeSlot ==
  /\ ts_pc = "idle"
  /\ \E n \in 0..MaxDayTasks :
       \E existingTasks \in [1..n -> TsTasks] :
         \E scheduledTime \in {<<>>, <<14, 0>>}, duration \in {<<>>, <<60>>} :
           \E workingHours \in TsWorkingHours :
             LET newTask == Task("N", "work", formatDateString(TsDay),
                                 scheduledTime, duration)
             IN /\ ts_existingTasks' = existingTasks
                /\ ts_newTask' = newTask
                /\ ts_workingHours' = workingHours
                /\ ts_result' = findBestTimeSlot(existingTasks, newTask, workingHours)
  /\ ts_pc' = "done"
  /\ UNCHANGED <<gi_vars, pv_vars, wl_vars, vc_vars, bk_vars, db_vars, dd_vars, pl_vars, ss_vars, tp_vars, pe_vars>>

SpecSlot == Init /\ [][FindBestTimeSlot]_vars

-----------------------------------------------------------------------------
(* The consumers of task durations, called on one task set. *)

\* calculateWorkloadAnalysis, validatePlanningConflicts,
\* generateSmartSchedulingSuggestions and findBestTimeSlot on the tasks, with
\* the draft as the planned task
durationConsumers(tasks, draft, startDate, endDate, userPreferences) ==
  [ workload |-> calculateWorkloadAnalysis(tasks, startDate, endDate),
    conflicts |-> validatePlanningConflicts(<<draft>>, tasks),
    suggestions |->
      generateSmartSchedulingSuggestions(draft, tasks,
                                         [startDate |-> startDate, endDate |-> endDate],
                                         userPreferences),
    slot |-> findBestTimeSlot(getTasksForDate(tasks, startDate), draft,
                              userPreferences.workingHours) ]

\* the task with an absent duration written out as 30
withDuration30(task) ==
  IF task.duration = <<>> THEN [task EXCEPT !.duration = <<30>>] ELSE task

\* the first day of the range: Monday 2024-03-04
DdDay == 63

\* tasks with and without a duration: two that overlap only if the first
\* lasts more than 20 minutes, a long one, and one on the next day
DdTasks ==
  LET date == formatDateString(DdDay)
      next == formatDateString(DdDay + 1)
  IN { Task("A", "work", date, <<9, 0>>, <<>>),
       Task("B", "work", date, <<9, 20>>, <<>>),
       Task("C", "personal", date, <<>>, <<360>>),
       Task("D", "personal", date, <<10, 15>>, <<30>>),
       Task("E", "work", next, <<9, 0>>, <<>>) }

DdPreferences ==
  { [ workingHours |-> [start |-> <<9, 0>>, end |-> <<17, 0>>],
      maxTasksPerDay |-> maxTasksPerDay, maxMinutesPerDay |-> <<>> ] :
      maxTasksPerDay \in {<<>>, <<2>>} }

\* the four consumers are called on a task set and a draft, and on the same
\* with every absent duration replaced by 30
DurationConsumers ==
  /\ dd_pc = "idle"
  /\ \E n \in 0..MaxDayTasks :
       \E tasks \in [1..n -> DdTasks] :
         \E category \in {"work", "personal"}, scheduledTime \in {<<>>, <<9, 25>>},
            duration \in {<<>>, <<60>>}, userPreferences \in DdPreferences :
           LET draft == Task("N", category, formatDateString(DdDay),
                             scheduledTime, duration)
               tasks30 == [i \in DOMAIN tasks |-> withDuration30(tasks[i])]
           IN /\ dd_tasks' = tasks
              /\ dd_draft' = draft
              /\ dd_result' = durationConsumers(tasks, draft, DdDay, DdDay + 2,
                                                userPreferences)
              /\ dd_result30' = durationConsumers(tasks30, withDuration30(draft),
                                                  DdDay, DdDay + 2, userPreferences)
  /\ dd_pc' = "done"
  /\ UNCHANGED <<gi_vars, pv_vars, wl_vars, vc_vars, bk_vars, db_vars, ts_vars, pl_vars, ss_vars, tp_vars, pe_vars>>

SpecDuration == Init /\ [][DurationConsumers]_vars

-----------------------------------------------------------------------------
(* Calls of generateSmartSchedulingSuggestions. *)

\* the first days of the ranges: Monday 2024-03-04 and Thursday 2024-03-07
SsStartDays == {63, 66}

\* userPreferences: at most 100 minutes a day
SsPreferences ==
  [ workingHours |-> [start |-> <<9, 0>>, end |-> <<17, 0>>],
    maxTasksPerDay |-> <<>>, maxMinutesPerDay |-> <<100>> ]

\* the existing tasks: a 90-minute 'work' task on each day of `heavy`, a
\* 120-minute 'work' task on each day of `full`, a 30-minute 'personal' task
\* on each day of `light`
SsExistingTasks(heavy, full, light) ==
  LET days == heavy \o full \o light
  IN [i \in DOMAIN days |->
        IF i <= Len(heavy)
        THEN Task(<<"H", i>>, "work", formatDateString(days[i]), <<9, 0>>, <<90>>)
        ELSE IF i <= Len(heavy) + Len(full)
        THEN Task(<<"F", i>>, "work", formatDateString(days[i]), <<10, 0>>, <<120>>)
        ELSE Task(<<"L", i>>, "personal", formatDateString(days[i]), <<11, 0>>, <<>>)]

\* a call of generateSmartSchedulingSuggestions(task, existingTasks, dateRange,
\* userPreferences): a 'work' or a 'personal' draft over a range of no day
\* (end before start), 1, 5, 7 or MaxSuggestSpan + 1 days, the days loaded
\* in different ways
GenerateSmartSchedulingSuggestions ==
  /\ ss_pc = "idle"
  /\ \E category \in {"work", "personal"}, s \in SsStartDays,
        len \in {-1, 0, 4, 6, MaxSuggestSpan} :
       \E heavy \in {<<>>, <<s>>, <<s + 1, s + 3>>, <<s, s + 2, s + 5>>},
          full \in {<<>>, <<s + 4>>, <<s + 6>>},
          light \in {<<>>, <<s + 2>>, <<s + 1, s + 6>>, <<s + 3, s + 7, s + 8>>} :
         LET task == Task("N", category, <<>>, <<>>, <<>>)
             existingTasks == SsExistingTasks(heavy, full, light)
             dateRange == [startDate |-> s, endDate |-> s + len]
         IN /\ ss_task' = task
            /\ ss_existingTasks' = existingTasks
            /\ ss_dateRange' = dateRange
            /\ ss_userPreferences' = SsPreferences
            /\ ss_result' = generateSmartSchedulingSuggestions(task, existingTasks,
                                                               dateRange, SsPreferences)
  /\ ss_pc' = "done"
  /\ UNCHANGED <<gi_vars, pv_vars, wl_vars, vc_vars, bk_vars, db_vars, ts_vars, dd_vars, pl_vars, tp_vars, pe_vars>>

SpecSuggest == Init /\ [][GenerateSmartSchedulingSuggestions]_vars

-----------------------------------------------------------------------------
(* The planning screen: bulk creation, preview, approval and rejection, with
   the task store and the template store behind them.  pl_previewTasks is the
   task list handleBulkCreation read; pl_instantiated counts, per template,
   the approvals and template applications. *)

\* the first day of the selected range: Monday 2024-03-04
PlFirstDay == 63

\* selectedDateRange
PlSelected == [startDate |-> PlFirstDay, endDate |-> PlFirstDay + 2]

\* the drafts of a bulk creation: 09:00-10:00 and 09:30 without a duration
PlDrafts ==
  { << Task("P1", "work", <<>>, <<9, 0>>, <<60>>) >>,
    << Task("P1", "work", <<>>, <<9, 0>>, <<60>>),
       Task("P2", "work", <<>>, <<9, 30>>, <<>>) >> }

\* bulk creations over the selected range, over its first day and over a day
\* outside it, with and without a template
PlBulkData ==
  { ObjectAssign(BulkTaskCreation(tasks, formatDateString(PlFirstDay + range[1]),
                                  formatDateString(PlFirstDay + range[2]), "daily", FALSE),
                 [templateId |-> templateId]) :
      tasks \in PlDrafts,
      range \in {<<0, 2>>, <<0, 0>>, <<7, 7>>},
      templateId \in {<<>>, <<"template-1">>} }

\* tasks created outside the planning flow
PlExternalTasks ==
  { Task("X1", "personal", formatDateString(PlFirstDay), <<9, 15>>, <<30>>),
    Task("X2", "personal", formatDateString(PlFirstDay + 1), <<14, 0>>, <<>>) }

\* createTask(task) from another screen
PlCreateTask ==
  /\ Cardinality({i \in DOMAIN pl_tasks : pl_tasks[i].category = "personal"}) < MaxExternal
  /\ \E task \in PlExternalTasks :
       pl_tasks' = createOneTimeTask(pl_tasks, task, <<"task", Len(pl_tasks) + 1>>,
                                     Len(pl_tasks) + 1)
  /\ pl_last' = [op |-> "createTask"]
  /\ UNCHANGED <<pl_templates, pl_planningPreview, pl_bulkCreation, pl_previewTasks,
                 pl_instantiated, pl_flows>>
  /\ UNCHANGED <<gi_vars, pv_vars, wl_vars, vc_vars, bk_vars, db_vars, ts_vars, dd_vars, ss_vars, tp_vars, pe_vars>>

\* handleBulkCreation(bulkData) with a date range selected: an error of
\* createBulkTasks or generatePlanningPreview is caught and no preview is set
PlHandleBulkCreation ==
  /\ pl_flows < MaxFlows
  /\ \E bulkData \in PlBulkData :
       LET created == createBulkTasks(pl_templates, bulkData, pl_tasks)
           made == generatePlanningPreview(created.plannedTasks, pl_tasks, PlSelected)
       IN /\ pl_templates' = created.stored
          /\ IF created.raised \/ made.raised
             THEN /\ UNCHANGED <<pl_planningPreview, pl_bulkCreation, pl_previewTasks>>
                  /\ pl_last' = [op |-> "handleBulkCreation", raised |-> TRUE]
             ELSE /\ pl_planningPreview' = <<made.preview>>
                  /\ pl_bulkCreation' = <<bulkData>>
                  /\ pl_previewTasks' = pl_tasks
                  /\ pl_last' = [op |-> "handleBulkCreation", raised |-> FALSE]
  /\ pl_flows' = pl_flows + 1
  /\ UNCHANGED <<pl_tasks, pl_instantiated>>
  /\ UNCHANGED <<gi_vars, pv_vars, wl_vars, vc_vars, bk_vars, db_vars, ts_vars, dd_vars, ss_vars, tp_vars, pe_vars>>

\* handlePlanApproval, pressed on an enabled 'Apply Plan'
PlHandlePlanApproval ==
  /\ pl_planningPreview # <<>> /\ pl_bulkCreation # <<>>
  /\ ~hasHighSeverityConflicts(pl_planningPreview[1])
  /\ LET templateId == pl_bulkCreation[1].templateId
     IN /\ pl_tasks' = approvedTasks(pl_tasks, pl_planningPreview[1])
        /\ pl_templates' =
             IF templateId # <<>> THEN incrementTemplateUsage(pl_templates, templateId[1])
             ELSE pl_templates
        /\ pl_instantiated' =
             IF templateId # <<>>
             THEN [pl_instantiated EXCEPT ![templateId[1]] = @ + 1]
             ELSE pl_instantiated
  /\ pl_planningPreview' = <<>> /\ pl_bulkCreation' = <<>> /\ pl_previewTasks' = <<>>
  /\ pl_last' = [ op |-> "handlePlanApproval", preview |-> pl_planningPreview[1],
                  previewTasks |-> pl_previewTasks, tasks |-> pl_tasks ]
  /\ UNCHANGED pl_flows
  /\ UNCHANGED <<gi_vars, pv_vars, wl_vars, vc_vars, bk_vars, db_vars, ts_vars, dd_vars, ss_vars, tp_vars, pe_vars>>

\* handlePlanRejection
PlHandlePlanRejection ==
  /\ pl_planningPreview # <<>>
  /\ pl_planningPreview' = <<>> /\ pl_bulkCreation' = <<>> /\ pl_previewTasks' = <<>>
  /\ pl_last' = [op |-> "handlePlanRejection", preview |-> pl_planningPreview[1]]
  /\ UNCHANGED <<pl_tasks, pl_templates, pl_instantiated, pl_flows>>
  /\ UNCHANGED <<gi_vars, pv_vars, wl_vars, vc_vars, bk_vars, db_vars, ts_vars, dd_vars, ss_vars, tp_vars, pe_vars>>

\* applyTemplateToDateRange(templateId, startDate, endDate) over the selected
\* range: one task per date is returned, none is stored
PlApplyTemplateToDateRange ==
  /\ \E templateId \in PlTemplateIds :
       /\ pl_instantiated[templateId] < MaxApplications
       /\ findIndexById(getTaskTemplates(pl_templates), templateId) # -1
       /\ pl_templates' = incrementTemplateUsage(pl_templates, templateId)
       /\ pl_instantiated' = [pl_instantiated EXCEPT ![templateId] = @ + 1]
       /\ pl_last' =
            [ op |-> "applyTemplateToDateRange", templateId |-> templateId,
              dates |-> [i \in 1..3 |-> formatDateString(PlFirstDay + i - 1)] ]
  /\ UNCHANGED <<pl_tasks, pl_planningPreview, pl_bulkCreation, pl_previewTasks, pl_flows>>
  /\ UNCHANGED <<gi_vars, pv_vars, wl_vars, vc_vars, bk_vars, db_vars, ts_vars, dd_vars, ss_vars, tp_vars, pe_vars>>

PlNext ==
  \/ PlCreateTask
  \/ PlHandleBulkCreation
  \/ PlHandlePlanApproval
  \/ PlHandlePlanRejection
  \/ PlApplyTemplateToDateRange

SpecPlanning == Init /\ [][PlNext]_vars

-----------------------------------------------------------------------------
(* Calls of the PlanningService on the stored task templates. *)

\* the ids createTaskTemplate gives, in the order of the calls
TpNewIds == <<"template-n1", "template-n2", "template-n3">>

\* the ids of the seeded templates and of those createTaskTemplate has made
TpTemplateIds == PlTemplateIds \cup {TpNewIds[n] : n \in 1..tp_created}

\* the call, the id it targets, the stored templates before it and whether it
\* threw
TpRecord(op, id, raised) ==
  [op |-> op, id |-> id, before |-> tp_stored, raised |-> raised]

\* createTaskTemplate(template), active or not
TpCreateTaskTemplate ==
  /\ tp_created < MaxTemplatesCreated
  /\ \E isActive \in BOOLEAN :
       LET id == TpNewIds[tp_created + 1]
       IN /\ tp_stored' = createTaskTemplate(tp_stored, [isActive |-> isActive], id)
          /\ tp_last' = TpRecord("createTaskTemplate", id, FALSE)
  /\ tp_created' = tp_created + 1
  /\ UNCHANGED <<gi_vars, pv_vars, wl_vars, vc_vars, bk_vars, db_vars, ts_vars, dd_vars,
                 pl_vars, ss_vars, pe_vars>>

\* updateTaskTemplate(id, updates): a template is deactivated or reactivated;
\* an id getTaskTemplates() does not return throws and nothing is written
TpUpdateTaskTemplate ==
  /\ \E id \in TpTemplateIds, isActive \in BOOLEAN :
       LET updated == updateTaskTemplate(tp_stored, id, [isActive |-> isActive])
       IN /\ tp_stored' = updated.stored
          /\ tp_last' = TpRecord("updateTaskTemplate", id, updated.raised)
  /\ UNCHANGED tp_created
  /\ UNCHANGED <<gi_vars, pv_vars, wl_vars, vc_vars, bk_vars, db_vars, ts_vars, dd_vars,
                 pl_vars, ss_vars, pe_vars>>

\* deleteTaskTemplate(id)
TpDeleteTaskTemplate ==
  /\ \E id \in TpTemplateIds :
       /\ tp_stored' = deleteTaskTemplate(tp_stored, id)
       /\ tp_last' = TpRecord("deleteTaskTemplate", id, FALSE)
  /\ UNCHANGED tp_created
  /\ UNCHANGED <<gi_vars, pv_vars, wl_vars, vc_vars, bk_vars, db_vars, ts_vars, dd_vars,
                 pl_vars, ss_vars, pe_vars>>

\* incrementTemplateUsage(id)
TpIncrementTemplateUsage ==
  /\ \E id \in TpTemplateIds :
       /\ \A i \in DOMAIN tp_stored :
            tp_stored[i].id = id => tp_stored[i].usageCount < MaxUsage
       /\ tp_stored' = incrementTemplateUsage(tp_stored, id)
       /\ tp_last' = TpRecord("incrementTemplateUsage", id, FALSE)
  /\ UNCHANGED tp_created
  /\ UNCHANGED <<gi_vars, pv_vars, wl_vars, vc_vars, bk_vars, db_vars, ts_vars, dd_vars,
                 pl_vars, ss_vars, pe_vars>>

TpNext ==
  \/ TpCreateTaskTemplate
  \/ TpUpdateTaskTemplate
  \/ TpDeleteTaskTemplate
  \/ TpIncrementTemplateUsage

SpecTemplates == Init /\ [][TpNext]_vars


-----------------------------------------------------------------------------
(* Vocabulary of the properties of generateInstances. *)

\* a < b for two "YYYY-MM-DD" strings
DateLess(a, b) ==
  \/ a[1] < b[1]
  \/ a[1] = b[1] /\ a[2] < b[2]
  \/ a[1] = b[1] /\ a[2] = b[2] /\ a[3] < b[3]

\* the weekday of a calendar date, 0 = Sunday, from the date's own digits
WeekdayOfDate(d) ==
  LET t == <<0, 3, 2, 5, 0, 3, 5, 1, 4, 6, 2, 4>>
      y == IF d[2] < 3 THEN d[1] - 1 ELSE d[1]
  IN (y + (y \div 4) - (y \div 100) + (y \div 400) + t[d[2]] + d[3]) % 7

RECURSIVE DaysBeforeMonth(_, _)
DaysBeforeMonth(y, m) ==
  IF m = 1 THEN 0 ELSE DaysBeforeMonth(y, m - 1) + DaysInMonth(y, m - 1)

\* the 1-based ordinal of a calendar date within its year
OrdinalOfDate(d) == DaysBeforeMonth(d[1], d[2]) + d[3]

GiDone == gi_pc = "done"

GiPattern == gi_template.recurrencePattern

GiRangeDays == gi_start..gi_end

\* the positions of the result whose instance is dated d
GiAt(d) ==
  LET ds == formatDateString(d)
  IN {i \in DOMAIN gi_result : gi_result[i].instanceDate = ds}

\* a skip (or modify) exception of the called template for day d is in the list
GiHasException(type, d) ==
  LET ds == formatDateString(d)
  IN \E k \in DOMAIN gi_exceptions :
       /\ gi_exceptions[k].templateId = gi_template.id
       /\ gi_exceptions[k].type = type
       /\ gi_exceptions[k].date = ds

GiExpectedDays ==
  {d \in GiRangeDays : shouldGenerateForDate(d, GiPattern) /\ ~GiHasException("skip", d)}

\* C1: generateInstances returns exactly one instance for each date of [s,e]
\* that matches the pattern and has no skip exception of this template, no
\* other instance, and the instances are in ascending date order.
C1_ExactlyTheMatchingUnskippedDates ==
  GiDone =>
    /\ \A d \in GiExpectedDays : Cardinality(GiAt(d)) = 1
    /\ \A i \in DOMAIN gi_result :
         \E d \in GiExpectedDays : gi_result[i].instanceDate = formatDateString(d)
    /\ \A i, j \in DOMAIN gi_result :
         i < j => DateLess(gi_result[i].instanceDate, gi_result[j].instanceDate)

\* a matching date of the range carries a skip and a modify exception and is
\* left out, while the dates around it are returned
C1_Witness ==
  /\ GiDone
  /\ Len(gi_result) >= 2
  /\ \E d \in GiRangeDays :
       /\ shouldGenerateForDate(d, GiPattern)
       /\ GiHasException("skip", d) /\ GiHasException("modify", d)
       /\ GiAt(d) = {}
       /\ GiAt(d - 1) # {} /\ GiAt(d + 1) # {}

\* the fields an instance copies from its template
TemplateFields == {"title", "category", "scheduledTime", "duration"}

\* the instance carries the exception's override fields over the template's
GiOverridden(inst, ex) ==
  /\ \A f \in DOMAIN ex.modifiedTask : inst[f] = ex.modifiedTask[f]
  /\ \A f \in TemplateFields \ DOMAIN ex.modifiedTask : inst[f] = gi_template[f]
  /\ inst.isModified = TRUE

\* exception k is a modify exception of the called template with override
\* fields, for a day of the range that matches and is not skipped
GiModifies(k, d) ==
  /\ gi_exceptions[k].templateId = gi_template.id
  /\ gi_exceptions[k].type = "modify"
  /\ gi_exceptions[k].hasModifiedTask
  /\ gi_exceptions[k].date = formatDateString(d)
  /\ d \in GiExpectedDays

\* exception k is the first modify exception of its template and date
GiFirstModify(k) ==
  \A j \in 1..(k - 1) :
    ~(/\ gi_exceptions[j].templateId = gi_exceptions[k].templateId
      /\ gi_exceptions[j].type = "modify"
      /\ gi_exceptions[j].date = gi_exceptions[k].date)

GiUnskippedDays == {d \in GiRangeDays : ~GiHasException("skip", d)}

GiNoOwnSkip == GiUnskippedDays = GiRangeDays

\* C3: a weekly pattern yields an instance on d iff weekday(d) is in the
\* weekday set, whatever the interval (7 consecutive days give |set|
\* instances); without weekdays it yields nothing; a monthly pattern yields
\* an instance iff d is the 1st of a month, whatever the interval.
C3_WeeklyByWeekdayMonthlyOnFirst ==
  GiDone =>
    /\ (GiPattern.type = "weekly" /\ GiPattern.hasWeeklyOptions) =>
         /\ \A d \in GiUnskippedDays :
              GiAt(d) # {} <=>
                WeekdayOfDate(formatDateString(d)) \in Range(GiPattern.daysOfWeek)
         /\ (gi_end = gi_start + 6 /\ GiNoOwnSkip) =>
              Len(gi_result) = Cardinality(Range(GiPattern.daysOfWeek))
    /\ (GiPattern.type = "weekly"
          /\ (~GiPattern.hasWeeklyOptions \/ GiPattern.daysOfWeek = <<>>)) =>
         gi_result = <<>>
    /\ GiPattern.type = "monthly" =>
         \A d \in GiUnskippedDays : GiAt(d) # {} <=> formatDateString(d)[3] = 1

\* a week from a Sunday under [1,3,5] with interval 2 gives three instances
C3_Witness ==
  /\ GiDone
  /\ GiPattern.type = "weekly" /\ GiPattern.interval = 2
  /\ GiPattern.daysOfWeek = <<1, 3, 5>>
  /\ WeekdayOfDate(formatDateString(gi_start)) = 0
  /\ gi_end = gi_start + 6 /\ GiNoOwnSkip
  /\ Len(gi_result) = 3

\* the dates of the instances a call returns
InstanceDates(instances) == {instances[i].instanceDate : i \in DOMAIN instances}

\* C4: a daily pattern with interval N >= 1 yields an instance on d iff the
\* 1-based day-of-year of d is divisible by N; a daily template with the same
\* interval created at another time yields the same dates over the range.
C4_DailyByDayOfYear ==
  (GiDone /\ GiPattern.type = "daily" /\ GiPattern.interval >= 1) =>
    /\ \A d \in GiUnskippedDays :
         GiAt(d) # {} <=> OrdinalOfDate(formatDateString(d)) % GiPattern.interval = 0
    /\ GiPattern.interval = 1 => \A d \in GiUnskippedDays : GiAt(d) # {}
    /\ GiNoOwnSkip =>
         InstanceDates(gi_result) =
           InstanceDates(generateInstances(Template("t2", GiPattern, 200),
                                           gi_start, gi_end, <<>>))

\* interval 2 across a year's end: 31 December 2024 (day 366) fires and
\* 1 January 2025 (day 1) does not
C4_Witness ==
  /\ GiDone /\ GiPattern.type = "daily" /\ GiPattern.interval = 2
  /\ GiNoOwnSkip
  /\ \E d \in GiRangeDays :
       /\ d + 1 \in GiRangeDays
       /\ formatDateString(d) = <<2024, 12, 31>>
       /\ GiAt(d) # {} /\ GiAt(d + 1) = {}


-----------------------------------------------------------------------------
(* Properties of generatePreview. *)

\* no date of the 365 days after startDate (startDate included) matches
PvNoMatchWithinYear ==
  \A d \in pv_start..(pv_start + 365) : ~shouldGenerateForDate(d, pv_pattern)

PvBounded ==
  /\ Len(pv_dates) <= pv_count
  /\ pv_dates = <<>> => pv_current - pv_start <= 366
  /\ (pv_pc = "done" /\ PvNoMatchWithinYear) => pv_dates = <<>>

\* C5: generatePreview terminates for every pattern and count, never holds
\* more than count dates, and with no match in the 365 days after startDate
\* gives up with the empty list after testing startDate .. startDate + 365.
C5_PreviewTerminatesBounded ==
  /\ []PvBounded
  /\ (pv_pc = "loop") ~> (pv_pc = "done")

\* a scan for count >= 1 dates that found nothing was given up after day
\* startDate + 365
C5_Witness ==
  /\ pv_pc = "done" /\ pv_count >= 1
  /\ pv_dates = <<>>
  /\ pv_current = pv_start + 366


-----------------------------------------------------------------------------
(* Properties of calculateWorkloadAnalysis. *)

WlDone == wl_pc = "done"

WlAnalysis == wl_result.analysis

\* the number of days of the range
WlDayCount == IF wl_end >= wl_start THEN wl_end - wl_start + 1 ELSE 0

WlRangeDays == wl_start..wl_end

\* the tasks of the list scheduled on day d
WlTasksOn(d) == {i \in DOMAIN wl_tasks : wl_tasks[i].scheduledDate = Civil[d]}

WlCountOn(d) == Cardinality(WlTasksOn(d))

WlTasksInRange == UNION {WlTasksOn(d) : d \in WlRangeDays}

WlAllInRange == WlTasksInRange = DOMAIN wl_tasks

WlDailySum ==
  SumSeq([i \in DOMAIN wl_result.dailyWorkload |-> wl_result.dailyWorkload[i].taskCount])

WlCategorySum ==
  SumSeq([i \in DOMAIN WlAnalysis.categoryDistribution |->
            WlAnalysis.categoryDistribution[i].taskCount])

WlPercentageSum ==
  SumSeq([i \in DOMAIN WlAnalysis.categoryDistribution |->
            WlAnalysis.categoryDistribution[i].percentageNum])

\* C6: with an empty task list over a non-empty range the call returns
\* normally: totalTasks 0, no category, level "light" and the capacity
\* message as the only recommendation.
C6_EmptyListLightAnalysis ==
  (WlDone /\ wl_tasks = <<>> /\ WlDayCount >= 1) =>
    /\ ~wl_result.raised
    /\ WlAnalysis.totalTasks = 0
    /\ WlAnalysis.categoryDistribution = <<>>
    /\ WlAnalysis.workloadLevel = "light"
    /\ Len(WlAnalysis.recommendations) = 1
    /\ WlAnalysis.recommendations[1].text = "You have capacity for additional tasks"

\* the call with no task over one day or more raised
C6_Witness ==
  /\ WlDone /\ wl_tasks = <<>> /\ WlDayCount >= 1
  /\ wl_result.raised
  /\ WlAnalysis.workloadLevel = "light"

\* C7 as stated: for every task list and range the per-day task counts sum to
\* totalTasks, and with totalTasks > 0 the category counts sum to totalTasks
\* and the percentages to 100.
C7_Original ==
  WlDone =>
    /\ WlDailySum = WlAnalysis.totalTasks
    /\ WlAnalysis.totalTasks > 0 =>
         /\ WlCategorySum = WlAnalysis.totalTasks
         /\ WlPercentageSum = 100 * WlAnalysis.totalTasks

\* C7: the per-day task counts sum to the number of tasks scheduled inside
\* the range, which is totalTasks when every task is scheduled inside it; with
\* totalTasks > 0 the category counts sum to totalTasks and the percentages
\* to 100.
C7_DailySumCountsTasksInRange ==
  WlDone =>
    /\ WlDailySum = Cardinality(WlTasksInRange)
    /\ WlAllInRange => WlDailySum = WlAnalysis.totalTasks
    /\ WlAnalysis.totalTasks = Len(wl_tasks)
    /\ WlAnalysis.totalTasks > 0 =>
         /\ WlCategorySum = WlAnalysis.totalTasks
         /\ WlPercentageSum = 100 * WlAnalysis.totalTasks

\* three tasks of two categories on two days of the range
C7_Witness ==
  /\ WlDone /\ ~wl_result.raised
  /\ WlAllInRange /\ Len(wl_tasks) = 3
  /\ Len(WlAnalysis.categoryDistribution) >= 2
  /\ \E d, e \in WlRangeDays : d # e /\ WlCountOn(d) = 2 /\ WlCountOn(e) = 1

LevelRank(level) ==
  CASE level = "light" -> 0
    [] level = "moderate" -> 1
    [] level = "heavy" -> 2
    [] level = "overloaded" -> 3

\* both averages are at most the row's limits over a range of n days
WithinRow(tasks, minutes, n, taskLimit, minuteLimit) ==
  tasks <= taskLimit * n /\ minutes <= minuteLimit * n

\* C8: the level is the first matching row of (<= 2, <= 120) light,
\* (<= 4, <= 240) moderate, (<= 6, <= 360) heavy, otherwise overloaded; with
\* the minutes per day fixed, more tasks per day never give a lower level.
C8_LevelTableMonotonic ==
  (WlDone /\ WlDayCount >= 1) =>
    LET t == WlAnalysis.totalTasks
        m == WlAnalysis.totalMinutes
        n == WlDayCount
        level == WlAnalysis.workloadLevel
    IN /\ level = "light" <=> WithinRow(t, m, n, 2, 120)
       /\ level = "moderate" <=>
            ~WithinRow(t, m, n, 2, 120) /\ WithinRow(t, m, n, 4, 240)
       /\ level = "heavy" <=>
            ~WithinRow(t, m, n, 4, 240) /\ WithinRow(t, m, n, 6, 360)
       /\ level = "overloaded" <=> ~WithinRow(t, m, n, 6, 360)
       /\ \A more \in t..(t + MaxLoad) :
            LevelRank(workloadLevelOf(more, m, n)) >= LevelRank(level)

\* two tasks a day, a light count, with 400 minutes a day: overloaded
C8_Witness ==
  /\ WlDone /\ ~wl_result.raised /\ WlDayCount = 1
  /\ WlAnalysis.totalTasks = 2 /\ WlAnalysis.totalMinutes = 400
  /\ WlAnalysis.workloadLevel = "overloaded"

\* min(3, ceil(n / 5))
WlExpectedCount(n) ==
  Min2(3, CHOOSE c \in 0..n : 5 * c >= n /\ 5 * (c - 1) < n)

\* every entry of days is a day of the range with that day's task count
WlEntriesOfRange(days) ==
  \A i \in DOMAIN days :
    \E d \in WlRangeDays : days[i].date = Civil[d] /\ days[i].taskCount = WlCountOn(d)

-----------------------------------------------------------------------------
(* Properties of validatePlanningConflicts. *)

VcDone == vc_pc = "done"

\* existing tasks first, then planned ones
VcAll == vc_existing \o vc_planned

VcStart(task) == 60 * task.scheduledTime[1] + task.scheduledTime[2]

VcEnd(task) ==
  VcStart(task) + (IF task.duration \in {<<>>, <<0>>} THEN 30 ELSE task.duration[1])

VcTimed(i, j) ==
  /\ VcAll[i].scheduledTime # <<>> /\ VcAll[j].scheduledTime # <<>>
  /\ VcAll[i].scheduledDate = VcAll[j].scheduledDate

\* both tasks bear a time on the same date and their half-open intervals overlap
VcOverlap(i, j) ==
  /\ VcTimed(i, j)
  /\ VcStart(VcAll[i]) < VcEnd(VcAll[j])
  /\ VcStart(VcAll[j]) < VcEnd(VcAll[i])

VcPairs == {p \in (DOMAIN VcAll) \X (DOMAIN VcAll) : p[1] < p[2]}

VcTimeEntries == {e \in DOMAIN vc_result : vc_result[e].reason = "Time conflict between"}

\* the time-conflict entries that name the titles of tasks i and j
VcEntriesNaming(i, j) ==
  {e \in VcTimeEntries :
     vc_result[e].arg \in { <<VcAll[i].title, VcAll[j].title>>,
                            <<VcAll[j].title, VcAll[i].title>> }}

\* the overlapping pairs that bear the titles of tasks i and j
VcOverlappingPairsNamed(i, j) ==
  {q \in VcPairs :
     /\ VcOverlap(q[1], q[2])
     /\ {VcAll[q[1]].title, VcAll[q[2]].title} = {VcAll[i].title, VcAll[j].title}}

\* C10: every unordered pair of time-bearing tasks, planned or existing, on
\* one date with overlapping half-open intervals [start, start + duration or
\* 30) has exactly one time-conflict entry, of high severity, on that date,
\* naming both titles; a pair that does not overlap, only touches, lies on
\* different dates or has a task without a time has none.
C10_OneEntryPerOverlappingPair ==
  VcDone =>
    /\ \A p \in VcPairs :
         /\ Cardinality(VcEntriesNaming(p[1], p[2])) =
              Cardinality(VcOverlappingPairsNamed(p[1], p[2]))
         /\ VcAll[p[1]].title # VcAll[p[2]].title =>
              Cardinality(VcEntriesNaming(p[1], p[2])) =
                IF VcOverlap(p[1], p[2]) THEN 1 ELSE 0
    /\ \A e \in VcTimeEntries :
         /\ vc_result[e].severity = "high"
         /\ \E p \in VcPairs :
              /\ VcOverlap(p[1], p[2])
              /\ vc_result[e].date = VcAll[p[1]].scheduledDate
              /\ vc_result[e].arg = <<VcAll[p[1]].title, VcAll[p[2]].title>>
    /\ Cardinality(VcTimeEntries) = Cardinality({p \in VcPairs : VcOverlap(p[1], p[2])})

\* an existing 09:00 task of 45 minutes and a planned 09:30 task of 30 share
\* one entry, and a task at 09:45 that touches the first has none with it
C10_Witness ==
  /\ VcDone /\ Len(vc_existing) = 1 /\ Len(vc_planned) = 2
  /\ vc_existing[1].scheduledTime = <<9, 0>> /\ vc_existing[1].duration = <<45>>
  /\ vc_planned[1].scheduledTime = <<9, 30>> /\ vc_planned[1].duration = <<>>
  /\ vc_planned[2].scheduledTime = <<9, 45>>
  /\ VcTimed(1, 2) /\ VcTimed(1, 3)
  /\ Cardinality(VcEntriesNaming(1, 2)) = 1
  /\ VcEntriesNaming(1, 3) = {}
  /\ Cardinality(VcTimeEntries) = 2


-----------------------------------------------------------------------------
(* Properties of generateBulkTaskPlan. *)

BkDone == bk_pc = "done"

BkTasks == bk_bulkCreation.tasks

\* the days first .. last of the requested range that are kept
BkFilteredDays ==
  LET first == CHOOSE d \in CalendarDays : Civil[d] = bk_bulkCreation.dateRange.startDate
      last == CHOOSE d \in CalendarDays : Civil[d] = bk_bulkCreation.dateRange.endDate
  IN {d \in first..last :
        ~(bk_bulkCreation.skipWeekends /\ WeekdayOfDate(Civil[d]) \in {0, 6})}

\* the k-th (from 0) kept day in ascending order
BkFilteredDate(k) ==
  Civil[CHOOSE d \in BkFilteredDays : Cardinality({e \in BkFilteredDays : e < d}) = k]

BkPlanned == bk_result.plannedTasks

\* C11: one planned task per draft in input order; with n >= 1 filtered dates
\* task i is on filteredDates[i mod n] under "daily" and on
\* filteredDates[floor(i * n / len(tasks))] under "custom"; every planned
\* date is a filtered date of the range.
C11_OnePlannedTaskPerDraft ==
  (BkDone /\ Cardinality(BkFilteredDays) >= 1) =>
    LET n == Cardinality(BkFilteredDays)
    IN /\ ~bk_result.raised
       /\ Len(BkPlanned) = Len(BkTasks)
       /\ \A i \in DOMAIN BkTasks :
            /\ BkPlanned[i].title = BkTasks[i].title
            /\ \E d \in BkFilteredDays : BkPlanned[i].scheduledDate = Civil[d]
            /\ bk_bulkCreation.distribution = "daily" =>
                 BkPlanned[i].scheduledDate = BkFilteredDate((i - 1) % n)
            /\ bk_bulkCreation.distribution = "custom" =>
                 BkPlanned[i].scheduledDate =
                   BkFilteredDate(((i - 1) * n) \div Len(BkTasks))

\* eleven drafts spread "custom" over 55 dates: the fourth (i = 3) is on
\* filteredDates[14], where floor(3 * 55 / 11) = 15
C11_Witness ==
  /\ BkDone /\ ~bk_result.raised
  /\ bk_bulkCreation.distribution = "custom"
  /\ Len(BkTasks) = 11 /\ Cardinality(BkFilteredDays) = 55
  /\ BkPlanned[4].scheduledDate = BkFilteredDate(14)
  /\ BkPlanned[4].scheduledDate # BkFilteredDate(15)

-----------------------------------------------------------------------------
(* The store: deletion, deactivation and cleanup. *)

\* the tasks of a list that are instances of template id
InstancesOf(tasks, id) ==
  {task \in Range(tasks) : hasTemplateId(task) /\ task.templateId = id}

\* C12: after deleteRecurringTemplate(id) the store holds no template with
\* that id and no task whose templateId is id, and every other task (one-time
\* tasks, instances of other templates) is stored as it was.
C12_DeleteCascades ==
  db_last.op = "deleteRecurringTemplate" =>
    LET id == db_last.arg
    IN /\ \A i \in DOMAIN db_templates : db_templates[i].id # id
       /\ InstancesOf(db_tasks, id) = {}
       /\ Range(db_tasks) = Range(db_last.tasks) \ InstancesOf(db_last.tasks, id)
       /\ Len(db_tasks) = Len(db_last.tasks) - Cardinality(InstancesOf(db_last.tasks, id))

\* a template with stored instances was deleted while instances of another
\* template were stored
C12_Witness ==
  /\ db_last.op = "deleteRecurringTemplate"
  /\ InstancesOf(db_last.tasks, db_last.arg) # {}
  /\ \E task \in Range(db_tasks) : hasTemplateId(task)

\* the stored templates that are switched off
DbInactiveIds ==
  {db_templates[i].id : i \in {j \in DOMAIN db_templates : ~db_templates[j].isActive}}

\* C13: a generateRecurringInstances run adds no instance of a template that
\* has been deactivated, and updateRecurringTemplate(id, {isActive: false})
\* leaves every stored task in place.
C13_DeactivationStopsGeneration ==
  /\ db_last.op = "generateRecurringInstances" =>
       \A id \in DbInactiveIds : InstancesOf(db_tasks, id) \subseteq InstancesOf(db_last.tasks, id)
  /\ db_last.op = "updateRecurringTemplate" => db_tasks = db_last.tasks

\* a run that added instances of an active template and none of a
\* deactivated one whose earlier instances are still stored
C13_Witness ==
  /\ db_last.op = "generateRecurringInstances"
  /\ Len(db_tasks) > Len(db_last.tasks)
  /\ \E id \in DbInactiveIds : InstancesOf(db_tasks, id) # {}

\* the instances cleanupOldRecurringInstances(daysToKeep) is to remove: dated
\* before today - daysToKeep and not completed
DbExpired(tasks, daysToKeep) ==
  {task \in Range(tasks) :
     /\ hasTemplateId(task)
     /\ task.status # "completed"
     /\ parseDateString(task.scheduledDate) < db_today - daysToKeep}

\* C17: cleanupOldRecurringInstances(daysToKeep) removes exactly the
\* instances dated before today - daysToKeep that are not completed; completed
\* instances, instances on or after the cutoff and tasks without a template
\* stay as they were.
C17_CleanupRemovesExactlyExpired ==
  db_last.op = "cleanupOldRecurringInstances" =>
    /\ Range(db_tasks) = Range(db_last.tasks) \ DbExpired(db_last.tasks, db_last.arg)
    /\ Len(db_tasks) = Len(db_last.tasks) - Cardinality(DbExpired(db_last.tasks, db_last.arg))

\* a cleanup that removed an expired instance and kept a completed instance
\* dated before the cutoff, a later instance and a one-time task
C17_Witness ==
  /\ db_last.op = "cleanupOldRecurringInstances"
  /\ DbExpired(db_last.tasks, db_last.arg) # {}
  /\ \E task \in Range(db_tasks) :
       /\ hasTemplateId(task) /\ task.status = "completed"
       /\ parseDateString(task.scheduledDate) < db_today - db_last.arg
  /\ \E task \in Range(db_tasks) :
       /\ hasTemplateId(task)
       /\ parseDateString(task.scheduledDate) >= db_today - db_last.arg
  /\ \E task \in Range(db_tasks) : ~hasTemplateId(task)

-----------------------------------------------------------------------------
(* Raised errors of the core functions. *)

\* C14: generateBulkTaskPlan raises for no input; a range in which no date
\* survives the weekend filter gives an empty plan.
C14_BulkPlanNeverRaises ==
  BkDone => ~bk_result.raised

\* drafts over a Saturday and Sunday with skipWeekends: the call raised
C14_Witness ==
  /\ BkDone /\ bk_result.raised
  /\ BkTasks # <<>>
  /\ bk_bulkCreation.skipWeekends
  /\ bk_bulkCreation.dateRange.startDate = <<2024, 3, 2>>
  /\ bk_bulkCreation.dateRange.endDate = <<2024, 3, 3>>
  /\ BkFilteredDays = {}

-----------------------------------------------------------------------------
(* isModified. *)

\* C19: an instance has isModified = TRUE iff a modify exception of
\* (template.id, instanceDate) is in the list, with or without override
\* fields; every other instance is pending, unmodified and scheduled on its
\* instance date.
C19_ModifiedIffModifyException ==
  GiDone =>
    \A i \in DOMAIN gi_result :
      LET inst == gi_result[i]
      IN /\ inst.isModified <=> GiHasException("modify", parseDateString(inst.instanceDate))
         /\ ~inst.isModified =>
              /\ inst.status = "pending"
              /\ inst.scheduledDate = inst.instanceDate

\* the only modify exception of an instance's date has no modifiedTask and
\* the instance is not marked, while an instance whose modify exception has
\* an empty modifiedTask is
C19_Witness ==
  /\ GiDone
  /\ \E i \in DOMAIN gi_result :
       /\ ~gi_result[i].isModified
       /\ \E k \in DOMAIN gi_exceptions :
            /\ gi_exceptions[k].templateId = gi_template.id
            /\ gi_exceptions[k].type = "modify"
            /\ gi_exceptions[k].date = gi_result[i].instanceDate
            /\ ~gi_exceptions[k].hasModifiedTask
       /\ \A k \in DOMAIN gi_exceptions :
            gi_exceptions[k].date = gi_result[i].instanceDate =>
              ~gi_exceptions[k].hasModifiedTask
  /\ \E i \in DOMAIN gi_result :
       /\ gi_result[i].isModified
       /\ \E k \in DOMAIN gi_exceptions :
            /\ gi_exceptions[k].date = gi_result[i].instanceDate
            /\ gi_exceptions[k].hasModifiedTask
            /\ gi_exceptions[k].modifiedTask = <<>>

-----------------------------------------------------------------------------
(* The time slot. *)

TsDone == ts_pc = "done"

TsScheduled == scheduledTasksOf(ts_existingTasks)

\* the end of a task, in minutes of the day
TsEnd(task) == timeToMinutes(task.scheduledTime) + durationOr30(task)

\* the adjacent pairs, in ascending start time, whose gap takes the draft and
\* a 15 minute buffer
TsFittingPairs ==
  {i \in 1..(Len(TsScheduled) - 1) :
     timeToMinutes(TsScheduled[i + 1].scheduledTime) - TsEnd(TsScheduled[i])
       >= durationOr30(ts_newTask) + 15}

\* minutes of the day as "HH:MM"
TsTime(minutes) == <<minutes \div 60, minutes % 60>>

\* C20: the draft's own time when it has one; else workingHours.start when no
\* task of the day has a time; else the end of the earlier task + 15 for the
\* first fitting adjacent pair; else the last task's end + 15 when that is
\* before workingHours.end, and workingHours.start otherwise.
C20_BestTimeSlotRules ==
  TsDone =>
    ts_result =
      IF ts_newTask.scheduledTime # <<>> THEN ts_newTask.scheduledTime
      ELSE IF TsScheduled = <<>> THEN ts_workingHours.start
      ELSE IF TsFittingPairs # {}
      THEN TsTime(TsEnd(TsScheduled[CHOOSE i \in TsFittingPairs :
                                      \A j \in TsFittingPairs : i <= j]) + 15)
      ELSE IF TsEnd(TsScheduled[Len(TsScheduled)]) + 15
                < timeToMinutes(ts_workingHours.end)
      THEN TsTime(TsEnd(TsScheduled[Len(TsScheduled)]) + 15)
      ELSE ts_workingHours.start

\* working hours 08:30-17:30: with no timed task the slot is 08:00, and a
\* last task ending at 17:00 gives 08:00 although 17:15 is before 17:30
C20_Witness ==
  /\ TsDone
  /\ ts_newTask.scheduledTime = <<>>
  /\ ts_workingHours = [start |-> <<8, 30>>, end |-> <<17, 30>>]
  /\ ts_result = <<8, 0>>
  /\ TsScheduled # <<>>
  /\ TsFittingPairs = {}
  /\ TsEnd(TsScheduled[Len(TsScheduled)]) + 15 = 17 * 60 + 15

-----------------------------------------------------------------------------
(* The default duration. *)

DdDone == dd_pc = "done"

\* C18: writing every absent duration of the tasks and of the draft as 30
\* changes the result of none of calculateWorkloadAnalysis,
\* validatePlanningConflicts, generateSmartSchedulingSuggestions and
\* findBestTimeSlot.
C18_AbsentDurationIsThirty ==
  DdDone => dd_result = dd_result30

\* tasks without a duration whose default decides an overlap, a load
\* threshold and a gap: the conflicts name the overlap of A and B, the first
\* day's suggestion is lowered by the minutes and the slot follows A's end
C18_Witness ==
  /\ DdDone
  /\ \E i \in DOMAIN dd_tasks : dd_tasks[i].title = "A"
  /\ \E i \in DOMAIN dd_tasks : dd_tasks[i].title = "B"
  /\ \E i \in DOMAIN dd_tasks : dd_tasks[i].title = "C"
  /\ dd_draft.duration = <<>> /\ dd_draft.scheduledTime = <<>>
  /\ \E i \in DOMAIN dd_result.conflicts : dd_result.conflicts[i].reason = "Time conflict between"
  /\ \E i \in DOMAIN dd_result.suggestions :
       /\ dd_result.suggestions[i].suggestedDate = formatDateString(DdDay)
       /\ dd_result.suggestions[i].confidence < 1000
  /\ dd_result.slot = <<10, 5>>

-----------------------------------------------------------------------------
(* The planning flow. *)

\* the stored task carries what the planned task carries, under its own id
PlPersisted(stored, planned) ==
  \A f \in {"title", "category", "scheduledDate", "scheduledTime", "duration"} :
    stored[f] = planned[f]

\* the time conflicts among the stored tasks
PlStoredTimeConflicts ==
  LET conflicts == validatePlanningConflicts(<<>>, pl_tasks)
  IN {i \in DOMAIN conflicts : conflicts[i].reason = "Time conflict between"}

\* C15: an open preview holds the conflicts computed from the task list read
\* when it was made, whatever is stored since; and handlePlanApproval stores
\* every planned task of the preview, also when the stored tasks have changed
\* since the preview was made.
C15_StalePreviewIsCommitted ==
  /\ pl_planningPreview # <<>> =>
       pl_planningPreview[1].conflicts =
         validatePlanningConflicts(pl_planningPreview[1].plannedTasks, pl_previewTasks)
  /\ pl_last.op = "handlePlanApproval" =>
       /\ Len(pl_tasks) = Len(pl_last.tasks) + Len(pl_last.preview.plannedTasks)
       /\ \A i \in DOMAIN pl_last.preview.plannedTasks :
            \E j \in DOMAIN pl_tasks :
              PlPersisted(pl_tasks[j], pl_last.preview.plannedTasks[i])
       /\ \A i \in DOMAIN pl_last.tasks : \E j \in DOMAIN pl_tasks : pl_tasks[j] = pl_last.tasks[i]

\* a preview without conflicts was approved after a task was stored that
\* overlaps a planned task: the store holds a time conflict
C15_Witness ==
  /\ pl_last.op = "handlePlanApproval"
  /\ pl_last.preview.conflicts = <<>>
  /\ Len(pl_last.preview.plannedTasks) = 2
  /\ pl_last.tasks # pl_last.previewTasks
  /\ PlStoredTimeConflicts # {}

\* C16: with no preview open, the usageCount of every stored template is the
\* number of times it instantiated tasks: one per approved plan made from it,
\* one per applyTemplateToDateRange, none for a rejected preview.
C16_UsageCountsInstantiations ==
  pl_planningPreview = <<>> =>
    \A i \in DOMAIN pl_templates :
      pl_templates[i].usageCount = pl_instantiated[pl_templates[i].id]

\* a plan made from template-1 was approved: the count rose by two, once in
\* createBulkTasks and once in handlePlanApproval, and no other count moved
C16_Witness ==
  /\ pl_last.op = "handlePlanApproval"
  /\ pl_instantiated["template-1"] = 1
  /\ \E i \in DOMAIN pl_templates :
       pl_templates[i].id = "template-1" /\ pl_templates[i].usageCount = 2
  /\ \E i \in DOMAIN pl_templates :
       pl_templates[i].id = "template-2" /\ pl_templates[i].usageCount = 0

-----------------------------------------------------------------------------
(* The weekly distribution of generateBulkTaskPlan. *)

\* the day of the i-th planned task
BkPlannedDay(i) == parseDateString(BkPlanned[i].scheduledDate)

\* the first available date of the range
BkFirstDay == CHOOSE d \in BkFilteredDays : \A e \in BkFilteredDays : d <= e

\* C21: under "weekly" every planned date is the first available date plus a
\* whole number of weeks; the first task is on the first available date and
\* each next task is one week after its predecessor or back on the first
\* available date; with weekends kept and with weekends skipped.
C21_WeeklyOnWeekStartOffsets ==
  (BkDone /\ bk_bulkCreation.distribution = "weekly" /\ BkFilteredDays # {}) =>
    /\ ~bk_result.raised
    /\ Len(BkPlanned) = Len(BkTasks)
    /\ \A i \in DOMAIN BkPlanned :
         /\ BkPlannedDay(i) >= BkFirstDay
         /\ (BkPlannedDay(i) - BkFirstDay) % 7 = 0
         /\ i = 1 => BkPlannedDay(i) = BkFirstDay
         /\ i > 1 => \/ BkPlannedDay(i) = BkPlannedDay(i - 1) + 7
                     \/ BkPlannedDay(i) = BkFirstDay

\* two drafts spread "weekly" over Monday 2024-02-26 .. Sunday 2024-03-10 with
\* weekends skipped: the second is on filteredDates[7], Wednesday 2024-03-06
C21_Witness ==
  /\ BkDone /\ ~bk_result.raised
  /\ bk_bulkCreation.distribution = "weekly" /\ bk_bulkCreation.skipWeekends
  /\ Cardinality(BkFilteredDays) = 10 /\ Len(BkTasks) = 2
  /\ BkPlannedDay(1) = 56
  /\ BkPlannedDay(2) = 65
  /\ WeekdayOfDate(BkPlanned[2].scheduledDate) = 3

\* with weekends kept the weekly placement is on whole weeks
C21_KeptWeekends ==
  (BkDone /\ bk_bulkCreation.distribution = "weekly" /\ ~bk_bulkCreation.skipWeekends) =>
    C21_WeeklyOnWeekStartOffsets

-----------------------------------------------------------------------------
(* Properties of generateSmartSchedulingSuggestions. *)

SsDone == ss_pc = "done"

\* the days of the requested range
SsRangeDays == ss_dateRange.startDate .. ss_dateRange.endDate

\* the candidate days: the days of the range, without Saturdays and Sundays
\* for a 'work' draft
SsCandidateDays ==
  {d \in SsRangeDays :
     ss_task.category = "work" => WeekdayOfDate(Civil[d]) \notin {0, 6}}

\* the suggestion pushed for a day, as a sequence of length 0 or 1
SsPushed(d) == suggestionFor(ss_task, ss_existingTasks, d, ss_userPreferences)

\* the candidate days whose confidence is above 0.3
SsSurvivors == {d \in SsCandidateDays : SsPushed(d) # <<>>}

\* the returned dates
SsReturnedDates == {ss_result[i].suggestedDate : i \in DOMAIN ss_result}

\* C22: at most 5 suggestions in non-increasing confidence order, each with
\* 0.3 < confidence <= 1.0 on a distinct date of the range; the 5 (or all, if
\* fewer) survive, and no surviving candidate left out has a higher confidence
\* than a returned one; each suggestion has at most 3 alternatives, each of
\* them a surviving candidate on another date than the suggestion's own.
C22_TopFiveByConfidence ==
  SsDone =>
    /\ Len(ss_result) = Min2(5, Cardinality(SsSurvivors))
    /\ \A i, j \in DOMAIN ss_result :
         /\ i < j => ss_result[i].confidence >= ss_result[j].confidence
         /\ i # j => ss_result[i].suggestedDate # ss_result[j].suggestedDate
    /\ \A i \in DOMAIN ss_result :
         /\ ss_result[i].confidence > 300 /\ ss_result[i].confidence <= 1000
         /\ \E d \in SsSurvivors :
              /\ ss_result[i].suggestedDate = Civil[d]
              /\ ss_result[i].confidence = SsPushed(d)[1].confidence
         /\ Len(ss_result[i].alternatives) <= 3
         /\ \A k \in DOMAIN ss_result[i].alternatives :
              LET alt == ss_result[i].alternatives[k]
              IN /\ alt.date # ss_result[i].suggestedDate
                 /\ \E d \in SsSurvivors :
                      /\ alt.date = Civil[d]
                      /\ alt.confidence = SsPushed(d)[1].confidence
                      /\ alt.confidence > 300
    /\ \A d \in SsSurvivors :
         Civil[d] \notin SsReturnedDates =>
           \A i \in DOMAIN ss_result :
             SsPushed(d)[1].confidence <= ss_result[i].confidence

\* more than five surviving candidates of unequal confidence: five are
\* returned, a surviving candidate of lower confidence on an earlier date is
\* left out, a candidate was discarded, and a suggestion has three
\* alternatives
C22_Witness ==
  /\ SsDone
  /\ Cardinality(SsSurvivors) > 5
  /\ Len(ss_result) = 5
  /\ \E d \in SsSurvivors :
       /\ Civil[d] \notin SsReturnedDates
       /\ SsPushed(d)[1].confidence < ss_result[5].confidence
       /\ DateLess(Civil[d], ss_result[5].suggestedDate)
  /\ Len(ss_result[1].alternatives) = 3
  /\ \E d \in SsCandidateDays : SsPushed(d) = <<>>

\* the Saturdays and Sundays of the requested range
SsWeekendDays == {d \in SsRangeDays : WeekdayOfDate(Civil[d]) \in {0, 6}}

\* the dates of the suggestions and of their alternatives
SsAllReturnedDates ==
  SsReturnedDates
    \cup UNION { {ss_result[i].alternatives[k].date : k \in DOMAIN ss_result[i].alternatives} :
                 i \in DOMAIN ss_result }

\* C24: for a 'work' draft no suggestion and no alternative is on a Saturday
\* or a Sunday; for any other category a weekend day of the range is a
\* candidate like the others: with confidence above 0.3 it is returned,
\* unless five dates of at least its confidence are.
C24_NoWeekendForWork ==
  SsDone =>
    /\ ss_task.category = "work" =>
         \A d \in SsWeekendDays : Civil[d] \notin SsAllReturnedDates
    /\ ss_task.category # "work" =>
         /\ Len(ss_result) =
              Min2(5, Cardinality({d \in SsRangeDays : SsPushed(d) # <<>>}))
         /\ \A d \in SsWeekendDays :
              (SsPushed(d) # <<>> /\ Civil[d] \notin SsReturnedDates) =>
                /\ Len(ss_result) = 5
                /\ \A i \in DOMAIN ss_result :
                     ss_result[i].confidence >= SsPushed(d)[1].confidence

\* a 'work' draft over Thursday .. Monday with nothing scheduled on the
\* weekend: the three weekdays are returned, the two free weekend days are not
C24_Witness ==
  /\ SsDone /\ ss_task.category = "work"
  /\ Cardinality(SsWeekendDays) = 2
  /\ \A d \in SsWeekendDays : SsPushed(d) # <<>> /\ SsPushed(d)[1].confidence = 1000
  /\ Len(ss_result) = 3
  /\ \A i \in DOMAIN ss_result : Len(ss_result[i].alternatives) = 2

\* a 'personal' draft over the same range: the weekend days are returned
C24_WeekendSuggested ==
  /\ SsDone /\ ss_task.category = "personal"
  /\ \E d \in SsWeekendDays : Civil[d] \in SsReturnedDates

-----------------------------------------------------------------------------
(* The load entries of validatePlanningConflicts. *)

\* the dates that hold a planned or an existing task
VcDates == {VcAll[i].scheduledDate : i \in DOMAIN VcAll}

\* the tasks of a date
VcTasksOn(date) == {i \in DOMAIN VcAll : VcAll[i].scheduledDate = date}

\* the day's total of duration-or-30
VcMinutesOn(date) ==
  LET on == SelectSeq(VcAll, LAMBDA task : task.scheduledDate = date)
  IN SumSeq([i \in DOMAIN on |->
               IF on[i].duration \in {<<>>, <<0>>} THEN 30 ELSE on[i].duration[1]])

\* the entries of a date with one of the given reasons
VcEntriesOn(date, reasons) ==
  {e \in DOMAIN vc_result : vc_result[e].date = date /\ vc_result[e].reason \in reasons}

VcMinuteReasons == {"Overloaded day", "Heavy workload"}

VcCountReasons == {"Too many tasks", "Many tasks"}

\* C23: a date with a task has one load-by-minutes entry if its total exceeds
\* 360 (high above 480, else medium) and none otherwise, and one
\* load-by-count entry if it holds more than 6 tasks (high above 8, else
\* medium) and none otherwise; entries are only on dates that hold a task.
C23_LoadEntriesByThreshold ==
  VcDone =>
    /\ \A e \in DOMAIN vc_result : vc_result[e].date \in VcDates
    /\ \A date \in VcDates :
         LET minutes == VcMinutesOn(date)
             count == Cardinality(VcTasksOn(date))
             byMinutes == VcEntriesOn(date, VcMinuteReasons)
             byCount == VcEntriesOn(date, VcCountReasons)
         IN /\ Cardinality(byMinutes) = (IF minutes > 360 THEN 1 ELSE 0)
            /\ \A e \in byMinutes :
                 /\ vc_result[e].severity = (IF minutes > 480 THEN "high" ELSE "medium")
                 /\ vc_result[e].reason =
                      (IF minutes > 480 THEN "Overloaded day" ELSE "Heavy workload")
            /\ Cardinality(byCount) = (IF count > 6 THEN 1 ELSE 0)
            /\ \A e \in byCount :
                 /\ vc_result[e].severity = (IF count > 8 THEN "high" ELSE "medium")
                 /\ vc_result[e].reason =
                      (IF count > 8 THEN "Too many tasks" ELSE "Many tasks")

\* eight tasks of 60 minutes on one day: 480 minutes give a medium entry by
\* minutes, 8 tasks a medium entry by count
C23_Witness ==
  /\ VcDone
  /\ \E date \in VcDates :
       /\ VcMinutesOn(date) = 480 /\ Cardinality(VcTasksOn(date)) = 8
       /\ \E e \in VcEntriesOn(date, VcMinuteReasons) : vc_result[e].severity = "medium"
       /\ \E e \in VcEntriesOn(date, VcCountReasons) : vc_result[e].severity = "medium"
  /\ Len(vc_result) = 2

\* nine tasks of 40 minutes: 360 minutes give no entry by minutes, 9 tasks a
\* high entry by count
C23_CountWithoutMinutes ==
  /\ VcDone
  /\ \E date \in VcDates :
       /\ VcMinutesOn(date) = 360 /\ Cardinality(VcTasksOn(date)) = 9
       /\ VcEntriesOn(date, VcMinuteReasons) = {}
       /\ \E e \in VcEntriesOn(date, VcCountReasons) : vc_result[e].severity = "high"

\* a day above 480 minutes with overlapping tasks: one entry by minutes beside
\* the time-conflict entries
C23_BesideTimeConflicts ==
  /\ VcDone /\ VcTimeEntries # {}
  /\ \E date \in VcDates : VcEntriesOn(date, VcMinuteReasons) # {}

-----------------------------------------------------------------------------
(* The task createTask returns. *)

\* C25: the task a createTask call returned is in the stored task list (found
\* by its id) right after the call, for a one-time and for a recurring task.
C25_ReturnedTaskIsStored ==
  db_last.op \in {"createTask", "createRecurringTask"} =>
    \E i \in DOMAIN db_tasks : db_tasks[i].id = db_last.returned.id

\* createTask with a weekly pattern without weekdays: a template is stored, no
\* task is added, and the returned task bears an id the store does not hold
C25_Witness ==
  /\ db_last.op = "createRecurringTask"
  /\ \E i \in DOMAIN db_templates :
       /\ db_templates[i].id = db_last.arg
       /\ db_templates[i].recurrencePattern.type = "weekly"
  /\ db_tasks = db_last.tasks
  /\ db_last.returned.id[1] = "task"
  /\ \A i \in DOMAIN db_tasks : db_tasks[i].id # db_last.returned.id

\* the returned task of a one-time createTask and of a recurring createTask
\* that generated an instance is stored
C25_StoredWhenInstanceExists ==
  (/\ db_last.op \in {"createTask", "createRecurringTask"}
   /\ db_tasks # getTasks(db_last.tasks)) =>
    \E i \in DOMAIN db_tasks : db_tasks[i] = db_last.returned

-----------------------------------------------------------------------------
(* Uniqueness of the stored instances. *)

\* the pairs of stored tasks that are instances of the same template on the
\* same date
DbDuplicates ==
  {pair \in (DOMAIN db_tasks) \X (DOMAIN db_tasks) :
     /\ pair[1] < pair[2]
     /\ hasTemplateId(db_tasks[pair[1]]) /\ hasTemplateId(db_tasks[pair[2]])
     /\ db_tasks[pair[1]].templateId = db_tasks[pair[2]].templateId
     /\ db_tasks[pair[1]].instanceDate = db_tasks[pair[2]].instanceDate}

\* the instances of the active templates due in today's generation window
DbDueInstances ==
  {i \in DOMAIN db_tasks :
     /\ hasTemplateId(db_tasks[i])
     /\ \E k \in DOMAIN db_templates :
          db_templates[k].id = db_tasks[i].templateId /\ db_templates[k].isActive
     /\ parseDateString(db_tasks[i].instanceDate) \in db_today .. (db_today + DefaultDaysAhead)}

\* C29: the store never holds two tasks with the same templateId and
\* instanceDate, and right after generateRecurringInstances another run over
\* the same window would leave the stored tasks as they are.
C29_NoDuplicateInstances ==
  /\ DbDuplicates = {}
  /\ db_last.op = "generateRecurringInstances" =>
       generateRecurringInstances(db_templates, db_exceptions, db_tasks, db_today,
                                  DefaultDaysAhead) = db_tasks

\* generateRecurringInstances run while two instances of an active template
\* are already stored for the window: nothing is added
C29_Witness ==
  /\ db_last.op = "generateRecurringInstances"
  /\ Cardinality(DbDueInstances) >= 2
  /\ \A i \in DbDueInstances : \E j \in DOMAIN db_last.tasks : db_last.tasks[j] = db_tasks[i]
  /\ Len(db_tasks) = Len(db_last.tasks)
  /\ \E i \in DOMAIN db_tasks : db_tasks[i].status = "completed" /\ i \in DbDueInstances

-----------------------------------------------------------------------------
(* The frame of the template operations. *)

\* the templates stored before the last call that it did not target
TpOthersBefore == {t \in Range(tp_last.before) : t.id # tp_last.id}

\* C26: after createTaskTemplate, updateTaskTemplate, deleteTaskTemplate or
\* incrementTemplateUsage every stored template other than the targeted one,
\* inactive ones included, is still stored unchanged.
C26_OtherTemplatesKept ==
  tp_last.op # "none" =>
    \A t \in TpOthersBefore : t \in Range(tp_stored)

\* incrementTemplateUsage of an active template while another stored template
\* is inactive: the inactive template is gone from the store
C26_Witness ==
  /\ tp_last.op = "incrementTemplateUsage"
  /\ \E t \in TpOthersBefore :
       /\ ~t.isActive
       /\ \A i \in DOMAIN tp_stored : tp_stored[i].id # t.id
  /\ \E i \in DOMAIN tp_stored :
       tp_stored[i].id = tp_last.id /\ tp_stored[i].usageCount = 1

\* the active templates other than the targeted one are kept
C26_ActiveTemplatesKept ==
  tp_last.op # "none" =>
    \A t \in TpOthersBefore : t.isActive => t \in Range(tp_stored)

-----------------------------------------------------------------------------
(* The conflicts of a planning preview. *)

\* the dates of the preview's planned tasks
PlPlannedDates(preview) ==
  {preview.plannedTasks[i].scheduledDate : i \in DOMAIN preview.plannedTasks}

\* the conflicts of the preview on a date without a planned task
PlForeignConflicts(preview) ==
  {k \in DOMAIN preview.conflicts : preview.conflicts[k].date \notin PlPlannedDates(preview)}

\* C27: every conflict of the open preview is on a date inside the preview's
\* date range that holds at least one of its planned tasks.
C27_ConflictsOnPlannedDatesInRange ==
  pl_planningPreview # <<>> =>
    LET preview == pl_planningPreview[1]
    IN \A k \in DOMAIN preview.conflicts :
         /\ DateStringAtMost(preview.dateRange.startDate, preview.conflicts[k].date)
         /\ DateStringAtMost(preview.conflicts[k].date, preview.dateRange.endDate)
         /\ preview.conflicts[k].date \in PlPlannedDates(preview)

\* a preview whose only conflicts are between stored tasks on a date without
\* a planned task, one of them of high severity: 'Apply Plan' is disabled
C27_Witness ==
  /\ pl_planningPreview # <<>>
  /\ pl_planningPreview[1].conflicts # <<>>
  /\ PlForeignConflicts(pl_planningPreview[1]) = DOMAIN pl_planningPreview[1].conflicts
  /\ hasHighSeverityConflicts(pl_planningPreview[1])
  /\ ~ENABLED PlHandlePlanApproval

\* a preview with a conflict on a date outside its date range
C27_ConflictOutsideRange ==
  /\ pl_planningPreview # <<>>
  /\ \E k \in DOMAIN pl_planningPreview[1].conflicts :
       ~DateStringAtMost(pl_planningPreview[1].conflicts[k].date,
                         pl_planningPreview[1].dateRange.endDate)

-----------------------------------------------------------------------------
(* The time slot and the tasks of the day. *)

\* the slot was taken from a gap between two adjacent tasks or from after the
\* last task
TsFromGapOrAfterLast ==
  /\ ts_newTask.scheduledTime = <<>>
  /\ TsScheduled # <<>>
  /\ \/ TsFittingPairs # {}
     \/ (TsEnd(TsScheduled[Len(TsScheduled)]) + 15) \div 60 < ts_workingHours.end[1]

\* the timed tasks of the day that [slot, slot + duration-or-30) overlaps
TsOverlapped ==
  {i \in DOMAIN TsScheduled :
     /\ timeToMinutes(ts_result) < TsEnd(TsScheduled[i])
     /\ timeToMinutes(TsScheduled[i].scheduledTime)
          < timeToMinutes(ts_result) + durationOr30(ts_newTask)}

\* two timed tasks of the day overlap each other
TsDayOverlaps ==
  \E i, j \in DOMAIN TsScheduled :
    /\ i < j
    /\ timeToMinutes(TsScheduled[i].scheduledTime) < TsEnd(TsScheduled[j])
    /\ timeToMinutes(TsScheduled[j].scheduledTime) < TsEnd(TsScheduled[i])

\* C28: a slot taken from a gap or from after the last task, for a draft
\* without a time, overlaps no timed task of the day.
C28_SlotOverlapsNoTask ==
  (TsDone /\ TsFromGapOrAfterLast) => TsOverlapped = {}

\* 09:30-13:30, 10:30-11:00 and 12:00-12:45: the gap after 11:00 takes a
\* 30-minute draft, and the slot 11:15 lies inside the task 09:30-13:30
C28_Witness ==
  /\ TsDone /\ TsFromGapOrAfterLast
  /\ TsFittingPairs # {}
  /\ ts_newTask.duration = <<>>
  /\ ts_result = <<11, 15>>
  /\ \E i \in TsOverlapped : TsScheduled[i].title = "G"

\* on a day whose timed tasks do not overlap each other the slot is free
C28_FreeOnDisjointDay ==
  (TsDone /\ TsFromGapOrAfterLast /\ ~TsDayOverlaps) => TsOverlapped = {}

-----------------------------------------------------------------------------
(* The end of a pattern. *)

PeDone == pe_pc = "done"

\* C30: a template yields the instance dates of the template that differs
\* from it only in having no endDate and no endAfterOccurrences, over every
\* range.
C30_PatternEndIgnored ==
  PeDone =>
    /\ Len(pe_result) = Len(pe_plainResult)
    /\ \A i \in DOMAIN pe_result :
         pe_result[i].instanceDate = pe_plainResult[i].instanceDate

\* a pattern that ended before the range and after one occurrence: two or
\* more instances are generated, all after its endDate
C30_Witness ==
  /\ PeDone
  /\ pe_template.recurrencePattern.endDate # <<>>
  /\ pe_template.recurrencePattern.endAfterOccurrences = <<1>>
  /\ parseDateString(pe_template.recurrencePattern.endDate[1]) < pe_start
  /\ Len(pe_result) >= 2
  /\ \A i \in DOMAIN pe_result :
       hasRecurrenceEnded(pe_template.recurrencePattern,
                          parseDateString(pe_result[i].instanceDate))

=============================================================================
